---- MODULE Spec2Model ----
(***************************************************************************)
(* Performance dashboard: the streaming data buffer and filter engine of   *)
(* the useDataStream hook, the request/response protocol between the       *)
(* useDataWorker hook and the data-processing worker, the aggregations,    *)
(* the coordinate mapping of CanvasUtils, the interaction state and the    *)
(* animated render loop of the useChartRenderer hook, and the heatmap grid.*)
(*                                                                         *)
(* The module holds these specifications over one set of variables:        *)
(*   Spec               the useDataStream hook (buffer, timer, effects)    *)
(*   SpecStreamControl  the hook with start/stop, filter updates, option   *)
(*                      changes and unmount                                *)
(*   SpecFilter         the pure function applyFilters                     *)
(*   SpecWorker         the useDataWorker hook and the worker's listener   *)
(*   SpecAggregate      the aggregation functions                          *)
(*   SpecMapper         getDataBounds, scalePoint and screenToChart        *)
(*   SpecChart          the interaction state of useChartRenderer          *)
(*   SpecRender         the animated render loop of useChartRenderer       *)
(*   SpecHeatmap        the heatmap grid                                   *)
(* Each specification leaves the variables of the others at a fixed value. *)
(***************************************************************************)
EXTENDS Integers, Sequences, FiniteSets, TLC

(***************************************************************************)
(* Bounds of the model.                                                    *)
(***************************************************************************)
\* maxDataPoints ranges over 1..MaxCapacity (the code's default is 10000).
MaxCapacity == 3
\* addBatchData is called with batches of 1..MaxBatch samples.
MaxBatch == 2
\* generateTestData is called with counts 0..MaxCount; MaxCount is also the
\* count of the refill effect and the length of a non-empty initialData
\* (both 5000 in the code).
MaxCount == 2
\* The wall clock advances at most this many times.
MaxClockAdvances == 1
\* The timer may run its timestamps up to this many steps past Now0 - 1000.
MaxTimerSteps == 1

(***************************************************************************)
(* Program constants.                                                      *)
(***************************************************************************)
\* generateRealtimeDataPoint: timestamp = lastTimestamp + 100.
RealtimeStep == 100
\* generateInitialDataset: timeStep = 1000.
InitialTimeStep == 1000
\* useDataStream: oneHourAgo = now - 60 * 60 * 1000.
OneHourMs == 3600000
\* useDataStream: default valueRange { min: 0, max: 100 }.
DefaultValueMin == 0
DefaultValueMax == 100
\* useDataStream: default updateInterval = 100.
DefaultUpdateInterval == 100

\* Date.now() at construction; later readings are Now0 + k * ClockStep (the
\* clock is read at multiples of the realtime step).
Now0 == 3605000
ClockStep == RealtimeStep

\* Categories and values of the samples the stream model generates
\* (a subset of DataGenerator.categories and of the clamped range 0..100).
StreamCategories == {"CPU"}
StreamValues == {50}

(***************************************************************************)
(* Helpers for arrays of DataPoint.                                        *)
(***************************************************************************)
DataPoint(t, v, c) == [timestamp |-> t, value |-> v, category |-> c]

SetMax(S) == CHOOSE x \in S : \A y \in S : y <= x

SetMin(S) == CHOOSE x \in S : \A y \in S : x <= y

\* Math.max(a, b)
Max2(a, b) == IF a >= b THEN a ELSE b

\* Math.min(a, b)
Min2(a, b) == IF a <= b THEN a ELSE b

\* data.map(d => d.timestamp) as a set
TimestampsOf(s) == {s[i].timestamp : i \in DOMAIN s}

\* data.map(d => d.timestamp) as an array
TimestampSeq(s) == [i \in DOMAIN s |-> s[i].timestamp]

\* Insert p into the timestamp-sorted array s after every element that does
\* not compare greater (Array.prototype.sort is stable).
RECURSIVE InsertByTimestamp(_, _)
InsertByTimestamp(s, p) ==
    IF s = <<>> THEN <<p>>
    ELSE IF s[Len(s)].timestamp <= p.timestamp THEN Append(s, p)
    ELSE Append(InsertByTimestamp(SubSeq(s, 1, Len(s) - 1), p), s[Len(s)])

\* array.sort((a, b) => a.timestamp - b.timestamp)
RECURSIVE SortByTimestamp(_)
SortByTimestamp(s) ==
    IF s = <<>> THEN <<>>
    ELSE InsertByTimestamp(SortByTimestamp(SubSeq(s, 1, Len(s) - 1)), s[Len(s)])

\* array.splice(0, n): the array without its first n elements
SpliceFront(s, n) == SubSeq(s, n + 1, Len(s))

IsSortedByTimestamp(s) ==
    \A i \in 1..(Len(s) - 1) : s[i].timestamp <= s[i + 1].timestamp

\* All sequences over S of length lo..hi.
SeqsOf(S, lo, hi) == UNION {[1..n -> S] : n \in lo..hi}

(***************************************************************************)
(* DataGenerator.                                                          *)
(***************************************************************************)
\* generateInitialDataset(count) called when Date.now() = clock: the set of
\* arrays it may return (category and noise are random).
generateInitialDataset(count, clock) ==
    {SortByTimestamp([i \in 1..count |->
        DataPoint(clock - (count - (i - 1)) * InitialTimeStep,
                  f[i][1], f[i][2])]) :
     f \in [1..count -> StreamValues \X StreamCategories]}

\* generateRealtimeDataPoint(lastTimestamp): the set of points it may return.
generateRealtimeDataPoint(lastTimestamp) ==
    {DataPoint(lastTimestamp + RealtimeStep, v, c) :
     v \in StreamValues, c \in StreamCategories}

(***************************************************************************)
(* useDataStream: pure parts.                                              *)
(***************************************************************************)
\* Mutant of applyFilters: the value range is taken exclusive.
applyFiltersExclusive(dataToFilter, currentFilters) ==
    LET keep(point) ==
            IF Len(currentFilters.categories) > 0
               /\ ~(\E k \in DOMAIN currentFilters.categories :
                        currentFilters.categories[k] = point.category)
            THEN FALSE
            ELSE IF point.value <= currentFilters.valueRange.min
                    \/ point.value >= currentFilters.valueRange.max
            THEN FALSE
            ELSE IF point.timestamp < currentFilters.timeRange.start
                    \/ point.timestamp > currentFilters.timeRange.end
            THEN FALSE
            ELSE TRUE
    IN  SelectSeq(dataToFilter, keep)

\* Mutant of applyFilters: the scan starts at the second element.
applyFiltersSkipFirst(dataToFilter, currentFilters) ==
    LET keep(point) ==
            IF Len(currentFilters.categories) > 0
               /\ ~(\E k \in DOMAIN currentFilters.categories :
                        currentFilters.categories[k] = point.category)
            THEN FALSE
            ELSE IF point.value < currentFilters.valueRange.min
                    \/ point.value > currentFilters.valueRange.max
            THEN FALSE
            ELSE IF point.timestamp < currentFilters.timeRange.start
                    \/ point.timestamp > currentFilters.timeRange.end
            THEN FALSE
            ELSE TRUE
    IN  SelectSeq(SubSeq(dataToFilter, 2, Len(dataToFilter)), keep)

\* applyFilters: Array.filter with three early returns.
applyFilters(dataToFilter, currentFilters) ==
    LET keep(point) ==
            IF Len(currentFilters.categories) > 0
               /\ ~(\E k \in DOMAIN currentFilters.categories :
                        currentFilters.categories[k] = point.category)
            THEN FALSE
            ELSE IF point.value < currentFilters.valueRange.min
                    \/ point.value > currentFilters.valueRange.max
            THEN FALSE
            ELSE IF point.timestamp < currentFilters.timeRange.start
                    \/ point.timestamp > currentFilters.timeRange.end
            THEN FALSE
            ELSE TRUE
    IN  SelectSeq(dataToFilter, keep)

\* Mutant of addDataPointUpdater: the trim keeps one element too many.
addDataPointUpdaterOffByOne(prevData, newPoint, cap) ==
    LET newData == Append(prevData, newPoint)
    IN  IF Len(newData) > cap + 1
        THEN SpliceFront(newData, Len(newData) - (cap + 1))
        ELSE newData

\* The updater addDataPoint passes to setData; cap is the maxDataPoints the
\* callback closed over.
addDataPointUpdater(prevData, newPoint, cap) ==
    LET newData == Append(prevData, newPoint)
    IN  IF Len(newData) > cap
        THEN SpliceFront(newData, Len(newData) - cap)
        ELSE newData

\* The updater addBatchData passes to setData: concatenate, trim from the
\* front by position, then sort.
addBatchDataUpdater(prevData, newPoints, cap) ==
    LET newData == prevData \o newPoints
        trimmed == IF Len(newData) > cap
                   THEN SpliceFront(newData, Len(newData) - cap)
                   ELSE newData
    IN  SortByTimestamp(trimmed)

\* setFilters(prev => ({...prev, ...newFilters})); newFilters is a record
\* with some of the fields of FilterOptions.
mergeFilters(prevFilters, newFilters) ==
    [k \in DOMAIN prevFilters |->
        IF k \in DOMAIN newFilters THEN newFilters[k] ELSE prevFilters[k]]

\* The initial value of the filters state.
initialFilters(initData, clock) ==
    [categories |-> <<>>,
     valueRange |-> [min |-> DefaultValueMin, max |-> DefaultValueMax],
     timeRange  |-> [start |-> IF Len(initData) > 0
                               THEN SetMin(TimestampsOf(initData))
                               ELSE clock - OneHourMs,
                     end   |-> clock]]

\* The initial value of lastTimestampRef.
initialLastTimestamp(initData, clock) ==
    IF Len(initData) > 0 THEN SetMax(TimestampsOf(initData)) ELSE clock


(***************************************************************************)
(* State.                                                                  *)
(***************************************************************************)
VARIABLES
    \* useDataStream: options
    initialData, maxDataPoints, enableRealtime, updateInterval,
    \* the component that uses the hook is mounted
    streamMounted,
    \* useDataStream: useState
    data, filteredData, isStreaming, filters,
    \* useDataStream: useRef
    intervalRef, lastTimestampRef,
    \* intervals created by setInterval and not yet cleared; each holds the
    \* maxDataPoints its callback closed over
    liveTimers,
    \* Date.now()
    now,
    \* effects whose dependencies changed and that have not run yet
    pendingEffects,
    \* history: the operation that last wrote the buffer or changed its
    \* capacity
    lastOp,
    \* history: the MaxCapacity largest timestamps among the samples inserted
    \* since the buffer was last replaced or its capacity changed, ascending
    mostRecent,
    \* history: which of startStreaming and stopStreaming a caller invoked
    \* last ("none" before the first call)
    lastCall,
    \* history: the timeRange a caller last passed to updateFilters
    userTimeRange

streamVars ==
    <<initialData, maxDataPoints, enableRealtime, updateInterval, streamMounted,
      data, filteredData, isStreaming, filters, intervalRef, lastTimestampRef,
      liveTimers, now, pendingEffects, lastOp, mostRecent, lastCall,
      userTimeRange>>

VARIABLES
    \* the array and the FilterOptions applyFilters is called with
    fData, fFilters,
    \* applyFilters(fData, fFilters) and applyFilters of that result
    fOnce, fTwice,
    \* "idle" (not in use), "input", "once", "twice"
    fStage

filterVars == <<fData, fFilters, fOnce, fTwice, fStage>>

VARIABLES
    \* whether the hook's effect has run and its cleanup has not
    mounted,
    \* workerRef.current: 0 for null, else the worker instance
    workerRef,
    \* isInitializedRef.current
    isInitializedRef,
    \* callbacksRef.current: the ids that have a callback registered
    callbacksRef,
    \* whether the current worker's script has run (listener added, ready
    \* signal posted)
    scriptRan,
    \* messages posted to the current worker and not yet handled by it
    inbox,
    \* messages the current worker posted and the hook has not yet received
    outbox,
    \* history: number of worker instances constructed so far
    workersCreated,
    \* history: the requests issued, in order; the index is the request's id.
    \* postedTo is the worker instance the request was posted to (0: none),
    \* afterReady whether that instance's ready signal had been received,
    \* pendingAtSend the number of callbacks registered at that moment
    requests,
    \* history: per request, the arguments of each call of its callback
    invocations,
    \* history: every response a worker posted, in order
    responseLog,
    \* history: the worker instances whose ready signal the hook received
    readyReceived,
    \* history: the ids whose callback was registered when a worker was
    \* terminated
    orphaned

workerVars ==
    <<mounted, workerRef, isInitializedRef, callbacksRef, scriptRan, inbox,
      outbox, workersCreated, requests, invocations, responseLog,
      readyReceived, orphaned>>

VARIABLES
    \* the samples, the window size, the period and the method the
    \* aggregations are called with
    aData, aWindowSize, aPeriod, aMethod,
    \* the results of aggregateDataByTimeWindow, DataGenerator.aggregateData
    \* and aggregateDataPoints on them
    aByTimeWindow, aGenerator, aDataPoints,
    \* the aggregations that have run: a subset of
    \* {"byTimeWindow", "generator", "dataPoints"}; {"idle"} when not in use
    aDone

aggVars ==
    <<aData, aWindowSize, aPeriod, aMethod, aByTimeWindow, aGenerator,
      aDataPoints, aDone>>

VARIABLES
    \* the samples and the dimensions the coordinate functions are called
    \* with, the value handed to scalePoint and the bounds handed to it
    mData, mDimensions, mPoint, mBounds,
    \* the results of getDataBounds, scalePoint and of screenToChart on the
    \* scaled point
    mGetDataBounds, mScaled, mBack,
    \* "idle" (not in use), "input", "bounds", "scaled", "back"
    mStage

mapVars ==
    <<mData, mDimensions, mPoint, mBounds, mGetDataBounds, mScaled, mBack,
      mStage>>

VARIABLES
    \* useChartRenderer: option enableInteraction
    enableInteraction,
    \* canvasRef.current is set (the canvas element is in the document)
    canvasPresent,
    \* useChartRenderer: useState interaction (zoom.scale, pan, hover)
    interaction,
    \* history: the last operation of the hook, its inputs and its result
    lastEvent,
    \* history: the number of wheel events so far
    wheelCount,
    \* history: the operation that wrote the current zoom scale
    scaleSetBy

chartVars ==
    <<enableInteraction, canvasPresent, interaction, lastEvent, wheelCount,
      scaleSetBy>>

VARIABLES
    \* useChartRenderer: option enableAnimation
    enableAnimation,
    \* the component that uses the hook is mounted
    renderMounted,
    \* canvasRef.current is set
    renderCanvas,
    \* useChartRenderer: useState isRendering
    isRendering,
    \* animationRef.current: 0 for undefined, else a frame handle
    animationRef,
    \* the frames requested with requestAnimationFrame and neither run nor
    \* cancelled, each with the loop (the renderAnimated call) it belongs to
    frames,
    \* the loop whose animate() is between renderFn and its
    \* requestAnimationFrame call, 0 when none is
    inFlight,
    \* history: the number of loops started and the next frame handle
    loopsStarted, nextHandle,
    \* history: per loop, the frames drawn (index 0: renders without
    \* animation)
    drawn,
    \* history: the loops that were stopped
    stoppedLoops

renderVars ==
    <<enableAnimation, renderMounted, renderCanvas, isRendering, animationRef,
      frames, inFlight, loopsStarted, nextHandle, drawn, stoppedLoops>>

VARIABLES
    \* the data of the Heatmap component and its heatmapData
    hData, hHeatmap,
    \* "idle" (not in use), "input", "done"
    hStage

heatVars == <<hData, hHeatmap, hStage>>

\* A step of one hook leaves the state of the others alone.
StreamOnly ==
    UNCHANGED <<filterVars, workerVars, aggVars, mapVars,
                chartVars, renderVars, heatVars>>

FilterOnly ==
    UNCHANGED <<streamVars, workerVars, aggVars, mapVars,
                chartVars, renderVars, heatVars>>

WorkerOnly ==
    UNCHANGED <<streamVars, filterVars, aggVars, mapVars,
                chartVars, renderVars, heatVars>>

AggOnly ==
    UNCHANGED <<streamVars, filterVars, workerVars, mapVars,
                chartVars, renderVars, heatVars>>

MapOnly ==
    UNCHANGED <<streamVars, filterVars, workerVars, aggVars,
                chartVars, renderVars, heatVars>>

RenderOnly ==
    UNCHANGED <<streamVars, filterVars, workerVars, aggVars,
                mapVars, chartVars, heatVars>>

HeatOnly ==
    UNCHANGED <<streamVars, filterVars, workerVars, aggVars,
                mapVars, chartVars, renderVars>>

ChartOnly ==
    UNCHANGED <<streamVars, filterVars, workerVars, aggVars,
                mapVars, renderVars, heatVars>>

(***************************************************************************)
(* History helpers.                                                        *)
(***************************************************************************)
RECURSIVE InsertInt(_, _)
InsertInt(s, x) ==
    IF s = <<>> THEN <<x>>
    ELSE IF s[Len(s)] <= x THEN Append(s, x)
    ELSE Append(InsertInt(SubSeq(s, 1, Len(s) - 1), x), s[Len(s)])

RECURSIVE SortInts(_)
SortInts(s) ==
    IF s = <<>> THEN <<>>
    ELSE InsertInt(SortInts(SubSeq(s, 1, Len(s) - 1)), s[Len(s)])

\* The last n elements of s (all of s when it is shorter).
LastN(s, n) == SubSeq(s, Max2(1, Len(s) - n + 1), Len(s))

\* mostRecent after the samples of points were inserted.
Remember(history, points) ==
    LastN(SortInts(history \o TimestampSeq(points)), MaxCapacity)

(***************************************************************************)
(* Effects: which ones a state change schedules.                           *)
(***************************************************************************)
\* Effects in declaration order.
EffectOrder == <<"filter", "init", "stream", "timeRange">>

AllEffects == {EffectOrder[i] : i \in DOMAIN EffectOrder}

\* The pending effect that runs next: React runs effects in declaration order.
NextEffect ==
    EffectOrder[SetMin({i \in DOMAIN EffectOrder : EffectOrder[i] \in pendingEffects})]

\* No effect is waiting to run: the hook is between renders.
Settled == streamMounted /\ pendingEffects = {}

\* An effect is waiting to run.
Pending == streamMounted /\ pendingEffects # {}

\* setData(next): data is a dependency of the filter and timeRange effects,
\* data.length of the init effect.
AfterSetData(next) ==
    {"filter", "timeRange"} \cup (IF Len(next) # Len(data) THEN {"init"} ELSE {})

(***************************************************************************)
(* Timers.                                                                 *)
(***************************************************************************)
\* clearInterval(handle)
clearInterval(timers, handle) == {t \in timers : t.id # handle}

\* The handle setInterval returns: one no live or referenced interval has.
FreshHandle(timers, ref) ==
    SetMin({h \in 1..(Cardinality(timers) + 2) :
                h # ref /\ \A t \in timers : t.id # h})

\* Mutant of startStreamingResult: the interval of intervalRef is not
\* cleared first.
startStreamingNoClear(timers, ref, cap) ==
    LET handle == FreshHandle(timers, 0)
    IN  [ref |-> handle, timers |-> timers \cup {[id |-> handle, cap |-> cap]}]

\* startStreaming: clears the interval of intervalRef, then creates one whose
\* callback closes over addDataPoint (and so over cap = maxDataPoints).
startStreamingResult(timers, ref, cap) ==
    LET cleared == IF ref # 0 THEN clearInterval(timers, ref) ELSE timers
        handle  == FreshHandle(cleared, 0)
    IN  [ref |-> handle, timers |-> cleared \cup {[id |-> handle, cap |-> cap]}]

\* stopStreaming: clears the interval of intervalRef, if any, and resets
\* the ref.
stopStreamingResult(timers, ref) ==
    [ref |-> 0,
     timers |-> IF ref # 0 THEN clearInterval(timers, ref) ELSE timers]

(***************************************************************************)
(* Inputs.                                                                 *)
(***************************************************************************)
InitialDatasets == {<<>>} \cup generateInitialDataset(MaxCount, Now0)

\* Timestamps of the samples callers pass in: older than, inside and newer
\* than a freshly generated buffer.
CallerTimes == {Now0 - 1200, Now0 - 900}

CallerPoints ==
    {DataPoint(t, v, c) : t \in CallerTimes, v \in StreamValues, c \in StreamCategories}

Batches == SeqsOf(CallerPoints, 0, MaxBatch)

\* Partial<FilterOptions> values passed to updateFilters.
FilterUpdates ==
    { [categories |-> <<"Memory">>],
      [timeRange |-> [start |-> Now0 - 1000, end |-> Now0]] }

\* Values of the option updateInterval: the hook's default and the
\* dashboard's.
UpdateIntervals == {DefaultUpdateInterval, 200}

\* No timeRange was passed to updateFilters yet.
NoTimeRange == [start |-> -1, end |-> -1]

MaxTimestamp == Now0 - InitialTimeStep + MaxTimerSteps * RealtimeStep

MaxNow == Now0 + MaxClockAdvances * ClockStep


(***************************************************************************)
(* useDataStream: construction.                                            *)
(***************************************************************************)
StreamInit ==
    /\ initialData \in InitialDatasets
    /\ maxDataPoints \in 1..MaxCapacity
    /\ enableRealtime \in BOOLEAN
    /\ updateInterval = DefaultUpdateInterval
    /\ streamMounted = TRUE
    /\ lastCall = "none"
    /\ userTimeRange = NoTimeRange
    /\ now = Now0
    /\ data = initialData
    /\ filteredData = initialData
    /\ isStreaming = enableRealtime
    /\ filters = initialFilters(initialData, now)
    /\ intervalRef = 0
    /\ lastTimestampRef = initialLastTimestamp(initialData, now)
    /\ liveTimers = {}
    /\ pendingEffects = AllEffects
    /\ lastOp = "construct"
    /\ mostRecent = Remember(<<>>, initialData)

(***************************************************************************)
(* useDataStream: the actions handed to callers, and the timer callback.   *)
(* A caller or the timer runs between renders, when no effect is pending.  *)
(***************************************************************************)
\* addDataPoint(newPoint), called with a point not older than the last one
\* buffered (the realtime feed's guarantee).
AddDataPoint(newPoint) ==
    /\ Settled
    /\ data = <<>> \/ data[Len(data)].timestamp <= newPoint.timestamp
    /\ LET next == addDataPointUpdater(data, newPoint, maxDataPoints)
       IN  /\ data' = next
           /\ pendingEffects' = AfterSetData(next)
    /\ lastTimestampRef' = Max2(lastTimestampRef, newPoint.timestamp)
    /\ mostRecent' = Remember(mostRecent, <<newPoint>>)
    /\ lastOp' = "addDataPoint"
    /\ UNCHANGED <<initialData, maxDataPoints, enableRealtime, filteredData,
                   isStreaming, filters, intervalRef, liveTimers, now>>
    /\ UNCHANGED <<updateInterval, streamMounted, lastCall, userTimeRange>>
    /\ StreamOnly

\* addBatchData(newPoints), newPoints in any order.
AddBatchData(newPoints) ==
    /\ Settled
    /\ LET next == addBatchDataUpdater(data, newPoints, maxDataPoints)
       IN  /\ data' = next
           /\ pendingEffects' = AfterSetData(next)
    /\ lastTimestampRef' =
           IF Len(newPoints) > 0 THEN SetMax(TimestampsOf(newPoints))
           ELSE lastTimestampRef
    /\ mostRecent' = Remember(mostRecent, newPoints)
    /\ lastOp' = "addBatchData"
    /\ UNCHANGED <<initialData, maxDataPoints, enableRealtime, filteredData,
                   isStreaming, filters, intervalRef, liveTimers, now>>
    /\ UNCHANGED <<updateInterval, streamMounted, lastCall, userTimeRange>>
    /\ StreamOnly

\* The setInterval callback of a live interval: generateRealtimeDataPoint
\* from lastTimestampRef, then addDataPoint.
TimerTick ==
    /\ Settled
    /\ lastTimestampRef + RealtimeStep <= MaxTimestamp
    /\ \E t \in liveTimers :
       \E newPoint \in generateRealtimeDataPoint(lastTimestampRef) :
          /\ LET next == addDataPointUpdater(data, newPoint, t.cap)
             IN  /\ data' = next
                 /\ pendingEffects' = AfterSetData(next)
          /\ lastTimestampRef' = Max2(lastTimestampRef, newPoint.timestamp)
          /\ mostRecent' = Remember(mostRecent, <<newPoint>>)
    /\ lastOp' = "timerTick"
    /\ UNCHANGED <<initialData, maxDataPoints, enableRealtime, filteredData,
                   isStreaming, filters, intervalRef, liveTimers, now>>
    /\ UNCHANGED <<updateInterval, streamMounted, lastCall, userTimeRange>>
    /\ StreamOnly

\* updateFilters(newFilters)
UpdateFilters(newFilters) ==
    /\ Settled
    /\ filters' = mergeFilters(filters, newFilters)
    /\ pendingEffects' = {"filter"}
    /\ UNCHANGED lastOp
    /\ UNCHANGED <<initialData, maxDataPoints, enableRealtime, data,
                   filteredData, isStreaming, intervalRef, lastTimestampRef,
                   liveTimers, now, mostRecent>>
    /\ userTimeRange' =
           IF "timeRange" \in DOMAIN newFilters THEN newFilters.timeRange
           ELSE userTimeRange
    /\ UNCHANGED <<updateInterval, streamMounted, lastCall>>
    /\ StreamOnly

\* startStreaming()
StartStreaming ==
    /\ Settled
    /\ LET r == startStreamingResult(liveTimers, intervalRef, maxDataPoints)
       IN  /\ intervalRef' = r.ref
           /\ liveTimers' = r.timers
    /\ isStreaming' = TRUE
    /\ UNCHANGED lastOp
    /\ UNCHANGED <<initialData, maxDataPoints, enableRealtime, data,
                   filteredData, filters, lastTimestampRef, now,
                   pendingEffects, mostRecent>>
    /\ lastCall' = "startStreaming"
    /\ UNCHANGED <<updateInterval, streamMounted, userTimeRange>>
    /\ StreamOnly

\* stopStreaming()
StopStreaming ==
    /\ Settled
    /\ LET r == stopStreamingResult(liveTimers, intervalRef)
       IN  /\ intervalRef' = r.ref
           /\ liveTimers' = r.timers
    /\ isStreaming' = FALSE
    /\ UNCHANGED lastOp
    /\ UNCHANGED <<initialData, maxDataPoints, enableRealtime, data,
                   filteredData, filters, lastTimestampRef, now,
                   pendingEffects, mostRecent>>
    /\ lastCall' = "stopStreaming"
    /\ UNCHANGED <<updateInterval, streamMounted, userTimeRange>>
    /\ StreamOnly

\* generateTestData(count)
GenerateTestData(count) ==
    /\ Settled
    /\ \E newData \in generateInitialDataset(count, now) :
          /\ data' = newData
          /\ pendingEffects' = AfterSetData(newData)
          /\ lastTimestampRef' =
                 IF Len(newData) > 0 THEN SetMax(TimestampsOf(newData))
                 ELSE lastTimestampRef
          /\ mostRecent' = Remember(<<>>, newData)
    /\ lastOp' = "generateTestData"
    /\ UNCHANGED <<initialData, maxDataPoints, enableRealtime, filteredData,
                   isStreaming, filters, intervalRef, liveTimers, now>>
    /\ UNCHANGED <<updateInterval, streamMounted, lastCall, userTimeRange>>
    /\ StreamOnly

\* clearData()
ClearData ==
    /\ Settled
    /\ data' = <<>>
    /\ filteredData' = <<>>
    /\ lastTimestampRef' = now
    /\ pendingEffects' = AfterSetData(<<>>)
    /\ mostRecent' = <<>>
    /\ lastOp' = "clearData"
    /\ UNCHANGED <<initialData, maxDataPoints, enableRealtime, isStreaming,
                   filters, intervalRef, liveTimers, now>>
    /\ UNCHANGED <<updateInterval, streamMounted, lastCall, userTimeRange>>
    /\ StreamOnly

\* The parent renders the hook with another maxDataPoints: addDataPoint,
\* addBatchData and startStreaming are created anew, which is a dependency
\* of the streaming effect.
ChangeMaxDataPoints(n) ==
    /\ Settled
    /\ n # maxDataPoints
    /\ maxDataPoints' = n
    /\ pendingEffects' = {"stream"}
    /\ mostRecent' = Remember(<<>>, data)
    /\ lastOp' = "changeMaxDataPoints"
    /\ UNCHANGED <<initialData, enableRealtime, data, filteredData,
                   isStreaming, filters, intervalRef, lastTimestampRef,
                   liveTimers, now>>
    /\ UNCHANGED <<updateInterval, streamMounted, lastCall, userTimeRange>>
    /\ StreamOnly

\* Time passes.
AdvanceClock ==
    /\ now + ClockStep <= MaxNow
    /\ now' = now + ClockStep
    /\ UNCHANGED <<initialData, maxDataPoints, enableRealtime, data,
                   filteredData, isStreaming, filters, intervalRef,
                   lastTimestampRef, liveTimers, pendingEffects, lastOp,
                   mostRecent>>
    /\ UNCHANGED <<updateInterval, streamMounted, lastCall, userTimeRange>>
    /\ StreamOnly

\* The parent renders the hook with another updateInterval: startStreaming
\* is created anew, which is a dependency of the streaming effect.
ChangeUpdateInterval(n) ==
    /\ Settled
    /\ n # updateInterval
    /\ updateInterval' = n
    /\ pendingEffects' = {"stream"}
    /\ UNCHANGED <<initialData, maxDataPoints, enableRealtime, streamMounted, data,
                   filteredData, isStreaming, filters, intervalRef,
                   lastTimestampRef, liveTimers, now, lastOp, mostRecent,
                   lastCall, userTimeRange>>
    /\ StreamOnly

\* The parent renders the hook with the other enableRealtime, a dependency
\* of the streaming effect.
ChangeEnableRealtime ==
    /\ Settled
    /\ enableRealtime' = ~enableRealtime
    /\ pendingEffects' = {"stream"}
    /\ UNCHANGED <<initialData, maxDataPoints, updateInterval, streamMounted, data,
                   filteredData, isStreaming, filters, intervalRef,
                   lastTimestampRef, liveTimers, now, lastOp, mostRecent,
                   lastCall, userTimeRange>>
    /\ StreamOnly

\* The component unmounts: the cleanup of the streaming effect clears the
\* interval of intervalRef.
Unmount ==
    /\ Settled
    /\ streamMounted' = FALSE
    /\ liveTimers' = IF intervalRef # 0 THEN clearInterval(liveTimers, intervalRef)
                     ELSE liveTimers
    /\ UNCHANGED <<initialData, maxDataPoints, enableRealtime, updateInterval,
                   data, filteredData, isStreaming, filters, intervalRef,
                   lastTimestampRef, now, pendingEffects, lastOp, mostRecent,
                   lastCall, userTimeRange>>
    /\ StreamOnly

(***************************************************************************)
(* useDataStream: effects.                                                 *)
(***************************************************************************)
\* Mutant of FilterEffect: setFilteredData(data).
FilterEffectUnfiltered ==
    /\ Pending
    /\ NextEffect = "filter"
    /\ filteredData' = data
    /\ pendingEffects' = pendingEffects \ {"filter"}
    /\ UNCHANGED lastOp
    /\ UNCHANGED <<initialData, maxDataPoints, enableRealtime, data,
                   isStreaming, filters, intervalRef, lastTimestampRef,
                   liveTimers, now, mostRecent>>
    /\ UNCHANGED <<updateInterval, streamMounted, lastCall, userTimeRange>>
    /\ StreamOnly

\* useEffect: setFilteredData(applyFilters(data, filters))
FilterEffect ==
    /\ Pending
    /\ NextEffect = "filter"
    /\ filteredData' = applyFilters(data, filters)
    /\ pendingEffects' = pendingEffects \ {"filter"}
    /\ UNCHANGED lastOp
    /\ UNCHANGED <<initialData, maxDataPoints, enableRealtime, data,
                   isStreaming, filters, intervalRef, lastTimestampRef,
                   liveTimers, now, mostRecent>>
    /\ UNCHANGED <<updateInterval, streamMounted, lastCall, userTimeRange>>
    /\ StreamOnly

\* useEffect: refill an empty buffer (generateTestData(5000), or initialData).
InitEffect ==
    /\ Pending
    /\ NextEffect = "init"
    /\ IF Len(initialData) = 0 /\ Len(data) = 0
       THEN \E newData \in generateInitialDataset(MaxCount, now) :
               /\ data' = newData
               /\ pendingEffects' =
                      (pendingEffects \ {"init"}) \cup AfterSetData(newData)
               /\ lastTimestampRef' =
                      IF Len(newData) > 0 THEN SetMax(TimestampsOf(newData))
                      ELSE lastTimestampRef
               /\ mostRecent' = Remember(<<>>, newData)
       ELSE IF Len(initialData) > 0 /\ Len(data) = 0
       THEN /\ data' = initialData
            /\ pendingEffects' =
                   (pendingEffects \ {"init"}) \cup AfterSetData(initialData)
            /\ lastTimestampRef' = SetMax(TimestampsOf(initialData))
            /\ mostRecent' = Remember(<<>>, initialData)
       ELSE /\ pendingEffects' = pendingEffects \ {"init"}
            /\ UNCHANGED <<data, lastTimestampRef, mostRecent>>
    /\ lastOp' = IF Len(data) = 0 THEN "refill" ELSE lastOp
    /\ UNCHANGED <<initialData, maxDataPoints, enableRealtime, filteredData,
                   isStreaming, filters, intervalRef, liveTimers, now>>
    /\ UNCHANGED <<updateInterval, streamMounted, lastCall, userTimeRange>>
    /\ StreamOnly

\* useEffect: the cleanup of the previous run clears the interval of
\* intervalRef (without resetting the ref); then startStreaming() if
\* enableRealtime.
StreamEffect ==
    /\ Pending
    /\ NextEffect = "stream"
    /\ LET cleaned == IF intervalRef # 0 THEN clearInterval(liveTimers, intervalRef)
                      ELSE liveTimers
           r == startStreamingResult(cleaned, intervalRef, maxDataPoints)
       IN  IF enableRealtime
           THEN /\ intervalRef' = r.ref
                /\ liveTimers' = r.timers
                /\ isStreaming' = TRUE
           ELSE /\ liveTimers' = cleaned
                /\ UNCHANGED <<intervalRef, isStreaming>>
    /\ pendingEffects' = pendingEffects \ {"stream"}
    /\ UNCHANGED lastOp
    /\ UNCHANGED <<initialData, maxDataPoints, enableRealtime, data,
                   filteredData, filters, lastTimestampRef, now, mostRecent>>
    /\ UNCHANGED <<updateInterval, streamMounted, lastCall, userTimeRange>>
    /\ StreamOnly

\* useEffect: widen filters.timeRange to cover the buffer.
TimeRangeEffect ==
    /\ Pending
    /\ NextEffect = "timeRange"
    /\ IF Len(data) > 0
       THEN /\ filters' =
                   [filters EXCEPT
                      !.timeRange =
                         [start |-> Min2(filters.timeRange.start,
                                         SetMin(TimestampsOf(data))),
                          end   |-> Max2(filters.timeRange.end,
                                         SetMax(TimestampsOf(data)))]]
            /\ pendingEffects' = (pendingEffects \ {"timeRange"}) \cup {"filter"}
       ELSE /\ pendingEffects' = pendingEffects \ {"timeRange"}
            /\ UNCHANGED filters
    /\ UNCHANGED lastOp
    /\ UNCHANGED <<initialData, maxDataPoints, enableRealtime, data,
                   filteredData, isStreaming, intervalRef, lastTimestampRef,
                   liveTimers, now, mostRecent>>
    /\ UNCHANGED <<updateInterval, streamMounted, lastCall, userTimeRange>>
    /\ StreamOnly

\* The stats object the hook returns (totalPoints, filteredPoints, timeRange).
stats ==
    [totalPoints    |-> Len(data),
     filteredPoints |-> Len(filteredData),
     timeRange      |-> IF Len(data) > 0
                        THEN [start |-> SetMin(TimestampsOf(data)),
                              end   |-> SetMax(TimestampsOf(data))]
                        ELSE [start |-> 0, end |-> 0]]

StreamNext ==
    \/ \E p \in CallerPoints : AddDataPoint(p)
    \/ \E b \in Batches : AddBatchData(b)
    \/ TimerTick
    \/ \E c \in 0..MaxCount : GenerateTestData(c)
    \/ ClearData
    \/ \E n \in 1..MaxCapacity : ChangeMaxDataPoints(n)
    \/ AdvanceClock
    \/ FilterEffect
    \/ InitEffect
    \/ StreamEffect
    \/ TimeRangeEffect

\* The hook with every action it hands out and every change of its options.
StreamControlNext ==
    \/ \E p \in CallerPoints : AddDataPoint(p)
    \/ TimerTick
    \/ \E c \in 0..MaxCount : GenerateTestData(c)
    \/ ClearData
    \/ \E n \in 1..MaxCapacity : ChangeMaxDataPoints(n)
    \/ FilterEffect
    \/ InitEffect
    \/ StreamEffect
    \/ TimeRangeEffect
    \/ \E f \in FilterUpdates : UpdateFilters(f)
    \/ StartStreaming
    \/ StopStreaming
    \/ \E n \in UpdateIntervals : ChangeUpdateInterval(n)
    \/ ChangeEnableRealtime
    \/ Unmount

(***************************************************************************)
(* applyFilters as a pure function: inputs drawn in the initial state,     *)
(* then applied once and applied again to its own output.                  *)
(***************************************************************************)

\* Longest array applyFilters is called with.
MaxFilterLen == 2

\* Samples on, inside and outside the bounds of the filters below.
FilterTimes == {100, 200, 300}

FilterValues == {10, 50, 60}

FilterCategories == {"CPU", "Memory"}

FilterPoints ==
    {DataPoint(t, v, c) : t \in FilterTimes, v \in FilterValues, c \in FilterCategories}

FilterSpecs ==
    {[categories |-> cs, valueRange |-> vr, timeRange |-> tr] :
        cs \in {<<>>, <<"CPU">>, <<"Memory", "Network">>},
        vr \in {[min |-> 10, max |-> 50], [min |-> 0, max |-> 100]},
        tr \in {[start |-> 100, end |-> 200], [start |-> 200, end |-> 300]}}

FilterIdle ==
    /\ fData = <<>>
    /\ fFilters = [categories |-> <<>>,
                   valueRange |-> [min |-> DefaultValueMin, max |-> DefaultValueMax],
                   timeRange  |-> [start |-> 0, end |-> 0]]
    /\ fOnce = <<>>
    /\ fTwice = <<>>
    /\ fStage = "idle"

FilterInit ==
    /\ fData \in SeqsOf(FilterPoints, 0, MaxFilterLen)
    /\ fFilters \in FilterSpecs
    /\ fOnce = <<>>
    /\ fTwice = <<>>
    /\ fStage = "input"

\* filtered = applyFilters(data, filters)
ApplyFiltersOnce ==
    /\ fStage = "input"
    /\ fOnce' = applyFilters(fData, fFilters)
    /\ fStage' = "once"
    /\ UNCHANGED <<fData, fFilters, fTwice>>
    /\ FilterOnly

\* applyFilters(filtered, filters)
ApplyFiltersAgain ==
    /\ fStage = "once"
    /\ fTwice' = applyFilters(fOnce, fFilters)
    /\ fStage' = "twice"
    /\ UNCHANGED <<fData, fFilters, fOnce>>
    /\ FilterOnly

FilterNext == ApplyFiltersOnce \/ ApplyFiltersAgain


(***************************************************************************)
(* useDataWorker and the worker's message listener.                        *)
(***************************************************************************)

\* Worker instances constructed in one behaviour.
MaxWorkers == 2
\* Requests issued in one behaviour.
MaxRequests == 2

\* A result is either null or the value the function of a request kind
\* returns on the payload of the request with the given id.
Null == [of |-> "null", request |-> 0]

ResultOf(type, id) == [of |-> type, request |-> id]

NoError == "undefined"

KnownTypes == {"PROCESS_DATA", "AGGREGATE_DATA", "GENERATE_DATA", "FILTER_DATA"}

\* The messages handed to sendMessage: the four kinds with a payload the
\* worker's function accepts, a PROCESS_DATA whose payload.data is not an
\* array, and a kind the worker does not know.
RequestShapes ==
    {[type |-> t, payloadOk |-> TRUE] : t \in KnownTypes}
    \cup {[type |-> "PROCESS_DATA", payloadOk |-> FALSE],
          [type |-> "UNKNOWN_TYPE", payloadOk |-> TRUE]}

\* The switch of the listener: whether the computation for msg throws, and
\* what it returns or the message of what it throws.
computation(msg) ==
    IF msg.type \notin KnownTypes
    THEN [threw |-> TRUE, message |-> "Unknown worker message type"]
    ELSE IF msg.type # "GENERATE_DATA" /\ ~msg.payloadOk
    THEN [threw |-> TRUE, message |-> "TypeError"]
    ELSE [threw |-> FALSE, result |-> ResultOf(msg.type, msg.id)]

\* Mutant of listenerPosts: no catch block, a throwing computation posts
\* nothing.
listenerPostsNoCatch(msg) ==
    LET c == computation(msg)
    IN  IF c.threw THEN <<>>
        ELSE <<[type |-> msg.type, result |-> c.result, id |-> msg.id,
                error |-> NoError, hasDuration |-> TRUE]>>

\* Mutant of listenerPosts: the response is posted in the try block and
\* again after it.
listenerPostsTwice(msg) ==
    LET c == computation(msg)
        r == IF c.threw
             THEN [type |-> msg.type, result |-> Null, id |-> msg.id,
                   error |-> c.message, hasDuration |-> FALSE]
             ELSE [type |-> msg.type, result |-> c.result, id |-> msg.id,
                   error |-> NoError, hasDuration |-> TRUE]
    IN  <<r, r>>

\* The messages the 'message' listener posts for msg: the response of the
\* try block, or the one of the catch block.
listenerPosts(msg) ==
    LET c == computation(msg)
    IN  IF c.threw
        THEN <<[type |-> msg.type, result |-> Null, id |-> msg.id,
                error |-> c.message, hasDuration |-> FALSE]>>
        ELSE <<[type |-> msg.type, result |-> c.result, id |-> msg.id,
                error |-> NoError, hasDuration |-> TRUE]>>

\* self.postMessage({ type: 'WORKER_READY', result: null, id: 'init' })
ReadySignal ==
    [type |-> "WORKER_READY", result |-> Null, id |-> 0, error |-> NoError,
     hasDuration |-> FALSE]

\* callback(result, error, duration)
CallbackArgs(result, error, hasDuration) ==
    [result |-> result, error |-> error, hasDuration |-> hasDuration]

\* Mutant of callbacksAfterDelivery: the entry is not deleted.
callbacksKept(cbs, id) == cbs

\* callbacksRef.current.delete(id)
callbacksAfterDelivery(cbs, id) == cbs \ {id}

\* sendMessage: !workerRef.current || !isInitializedRef.current
workerUnavailable(ref, initialized) == ref = 0 \/ ~initialized

\* isWorkerReady()
isWorkerReady == workerRef # 0 /\ isInitializedRef

WorkerIdle ==
    /\ mounted = FALSE
    /\ workerRef = 0
    /\ isInitializedRef = FALSE
    /\ callbacksRef = {}
    /\ scriptRan = FALSE
    /\ inbox = <<>>
    /\ outbox = <<>>
    /\ workersCreated = 0
    /\ requests = <<>>
    /\ invocations = <<>>
    /\ responseLog = <<>>
    /\ readyReceived = {}
    /\ orphaned = {}

\* The refs as useRef creates them, before the effect runs.
WorkerInit == WorkerIdle

\* The effect: new Worker(...) succeeds; onmessage and onerror are set.
MountWorker ==
    /\ ~mounted
    /\ workersCreated < MaxWorkers
    /\ mounted' = TRUE
    /\ workersCreated' = workersCreated + 1
    /\ workerRef' = workersCreated + 1
    /\ scriptRan' = FALSE
    /\ inbox' = <<>>
    /\ outbox' = <<>>
    /\ UNCHANGED <<isInitializedRef, callbacksRef, requests, invocations,
                   responseLog, readyReceived, orphaned>>
    /\ WorkerOnly

\* The effect: new Worker(...) throws; the catch block logs.
MountWorkerFails ==
    /\ ~mounted
    /\ mounted' = TRUE
    /\ UNCHANGED <<workerRef, isInitializedRef, callbacksRef, scriptRan,
                   inbox, outbox, workersCreated, requests, invocations,
                   responseLog, readyReceived, orphaned>>
    /\ WorkerOnly

\* The effect's cleanup: terminate() discards the worker and every message
\* in flight in either direction.
UnmountWorker ==
    /\ mounted
    /\ mounted' = FALSE
    /\ workerRef' = 0
    /\ scriptRan' = FALSE
    /\ inbox' = <<>>
    /\ outbox' = <<>>
    /\ orphaned' = IF workerRef # 0 THEN orphaned \cup callbacksRef ELSE orphaned
    /\ UNCHANGED <<isInitializedRef, callbacksRef, workersCreated, requests,
                   invocations, responseLog, readyReceived>>
    /\ WorkerOnly

\* The worker's script runs: it adds the listener and posts the ready signal.
WorkerScriptRuns ==
    /\ workerRef # 0
    /\ ~scriptRan
    /\ scriptRan' = TRUE
    /\ outbox' = Append(outbox, ReadySignal)
    /\ UNCHANGED <<mounted, workerRef, isInitializedRef, callbacksRef, inbox,
                   workersCreated, requests, invocations, responseLog,
                   readyReceived, orphaned>>
    /\ WorkerOnly

\* The worker's 'message' listener handles the oldest request.
WorkerHandlesMessage ==
    /\ workerRef # 0
    /\ scriptRan
    /\ inbox # <<>>
    /\ LET posts == listenerPosts(Head(inbox))
       IN  /\ outbox' = outbox \o posts
           /\ responseLog' = responseLog \o posts
    /\ inbox' = Tail(inbox)
    /\ UNCHANGED <<mounted, workerRef, isInitializedRef, callbacksRef,
                   scriptRan, workersCreated, requests, invocations,
                   readyReceived, orphaned>>
    /\ WorkerOnly

\* workerRef.current.onmessage receives the oldest message of the worker.
HookOnMessage ==
    /\ workerRef # 0
    /\ outbox # <<>>
    /\ LET m == Head(outbox)
       IN  IF m.type = "WORKER_READY"
           THEN /\ isInitializedRef' = TRUE
                /\ readyReceived' = readyReceived \cup {workerRef}
                /\ UNCHANGED <<callbacksRef, invocations>>
           ELSE IF m.id \in callbacksRef
           THEN /\ invocations' =
                       [invocations EXCEPT
                          ![m.id] = Append(@, CallbackArgs(m.result, m.error,
                                                          m.hasDuration))]
                /\ callbacksRef' = callbacksAfterDelivery(callbacksRef, m.id)
                /\ UNCHANGED <<isInitializedRef, readyReceived>>
           ELSE UNCHANGED <<isInitializedRef, readyReceived, callbacksRef,
                            invocations>>
    /\ outbox' = Tail(outbox)
    /\ UNCHANGED <<mounted, workerRef, scriptRan, inbox, workersCreated,
                   requests, responseLog, orphaned>>
    /\ WorkerOnly

\* processData / aggregateData / generateData / filterData: build a message
\* with a fresh id and hand it to sendMessage with the caller's callback.
SendMessage(shape) ==
    /\ Len(requests) < MaxRequests
    /\ LET id  == Len(requests) + 1
           msg == [type |-> shape.type, payloadOk |-> shape.payloadOk, id |-> id]
       IN  IF workerUnavailable(workerRef, isInitializedRef)
           THEN /\ invocations' =
                       Append(invocations,
                              <<CallbackArgs(Null, "Worker not initialized", FALSE)>>)
                /\ requests' =
                       Append(requests,
                              [type |-> msg.type, payloadOk |-> msg.payloadOk,
                               postedTo |-> 0, afterReady |-> FALSE,
                               pendingAtSend |-> Cardinality(callbacksRef)])
                /\ UNCHANGED <<callbacksRef, inbox>>
           ELSE /\ callbacksRef' = callbacksRef \cup {id}
                /\ inbox' = Append(inbox, msg)
                /\ invocations' = Append(invocations, <<>>)
                /\ requests' =
                       Append(requests,
                              [type |-> msg.type, payloadOk |-> msg.payloadOk,
                               postedTo |-> workerRef,
                               afterReady |-> workerRef \in readyReceived,
                               pendingAtSend |-> Cardinality(callbacksRef)])
    /\ UNCHANGED <<mounted, workerRef, isInitializedRef, scriptRan, outbox,
                   workersCreated, responseLog, readyReceived, orphaned>>
    /\ WorkerOnly

WorkerNext ==
    \/ MountWorker
    \/ MountWorkerFails
    \/ UnmountWorker
    \/ WorkerScriptRuns
    \/ WorkerHandlesMessage
    \/ HookOnMessage
    \/ \E shape \in RequestShapes : SendMessage(shape)

(***************************************************************************)
(* JavaScript numbers in exact arithmetic.  A finite number is the reduced *)
(* fraction n/d with d > 0; NaN and the two infinities are the values a    *)
(* division by zero produces.  Rounding of doubles is not modelled.        *)
(***************************************************************************)
Abs(x) == IF x < 0 THEN -x ELSE x

RECURSIVE Gcd(_, _)
Gcd(a, b) == IF b = 0 THEN a ELSE Gcd(b, a % b)

\* The number n/d, d # 0.
Frac(n, d) ==
    LET g == Gcd(Abs(n), Abs(d))
        s == IF d < 0 THEN -1 ELSE 1
    IN  [k |-> "fin", n |-> s * (n \div g), d |-> s * (d \div g)]

Num(i) == Frac(i, 1)

NaN == [k |-> "nan", n |-> 0, d |-> 1]

\* Infinity (sign 1) and -Infinity (sign -1)
Infinity(sign) == [k |-> "inf", n |-> sign, d |-> 1]

IsFinite(a) == a.k = "fin"

IsZero(a) == a.k = "fin" /\ a.n = 0

SignOf(a) == IF a.n < 0 THEN -1 ELSE IF a.n > 0 THEN 1 ELSE 0

\* -a
Neg(a) ==
    CASE a.k = "fin" -> Frac(-a.n, a.d)
      [] a.k = "inf" -> Infinity(-a.n)
      [] OTHER -> NaN

\* a + b
Add(a, b) ==
    CASE a.k = "nan" \/ b.k = "nan" -> NaN
      [] a.k = "inf" /\ b.k = "inf" -> IF a.n = b.n THEN a ELSE NaN
      [] a.k = "inf" -> a
      [] b.k = "inf" -> b
      [] OTHER ->
            LET g == Gcd(a.d, b.d)
            IN  Frac(a.n * (b.d \div g) + b.n * (a.d \div g),
                     (a.d \div g) * b.d)

\* a - b
Sub(a, b) == Add(a, Neg(b))

\* a * b
Mul(a, b) ==
    CASE a.k = "nan" \/ b.k = "nan" -> NaN
      [] a.k = "inf" \/ b.k = "inf" ->
            IF IsZero(a) \/ IsZero(b) THEN NaN
            ELSE Infinity(SignOf(a) * SignOf(b))
      [] OTHER ->
            LET x == Frac(a.n, b.d)
                y == Frac(b.n, a.d)
            IN  Frac(x.n * y.n, x.d * y.d)

\* a / b.  A zero divisor here is always the +0 of a difference of equal
\* numbers, so x / 0 has the sign of x.
Div(a, b) ==
    CASE a.k = "nan" \/ b.k = "nan" -> NaN
      [] b.k = "inf" -> IF a.k = "inf" THEN NaN ELSE Num(0)
      [] IsZero(b) -> IF IsZero(a) THEN NaN ELSE Infinity(SignOf(a))
      [] a.k = "inf" -> Infinity(SignOf(a) * SignOf(b))
      [] OTHER -> Mul(a, Frac(b.d, b.n))

\* a < b (false when either is NaN)
Lt(a, b) ==
    /\ a.k # "nan"
    /\ b.k # "nan"
    /\ CASE a.k = "inf" /\ b.k = "inf" -> a.n < b.n
         [] a.k = "inf" -> a.n < 0
         [] b.k = "inf" -> b.n > 0
         [] OTHER ->
               LET g == Gcd(a.d, b.d)
               IN  a.n * (b.d \div g) < b.n * (a.d \div g)

\* a <= b (false when either is NaN)
Le(a, b) == a.k # "nan" /\ b.k # "nan" /\ ~Lt(b, a)

\* Math.max(a, b)
MathMax(a, b) ==
    IF a.k = "nan" \/ b.k = "nan" THEN NaN ELSE IF Lt(a, b) THEN b ELSE a

\* Math.min(a, b)
MathMin(a, b) ==
    IF a.k = "nan" \/ b.k = "nan" THEN NaN ELSE IF Lt(b, a) THEN b ELSE a

\* array.reduce((sum, p) => sum + p.value, 0) over integer values
RECURSIVE SumValues(_)
SumValues(s) ==
    IF s = <<>> THEN 0 ELSE SumValues(SubSeq(s, 1, Len(s) - 1)) + s[Len(s)].value

\* array.map(p => p.value) as a set
ValuesOf(s) == {s[i].value : i \in DOMAIN s}

\* Math.floor(a / b) * b for integers a and b > 0
FloorTo(a, b) == (a \div b) * b

(***************************************************************************)
(* Time-bucket aggregation: the worker's aggregateDataByTimeWindow and     *)
(* aggregateDataPoints, and DataGenerator.aggregateData.                   *)
(***************************************************************************)
MaxAggLen == 3

\* One derived sample of aggregateDataByTimeWindow.
windowSample(windowStart, windowSize, currentWindow, final) ==
    [timestamp |-> Add(Num(windowStart), Div(Num(windowSize), Num(2))),
     value     |-> Div(Num(SumValues(currentWindow)), Num(Len(currentWindow))),
     category  |-> "aggregated",
     id        |-> [start |-> windowStart, final |-> final]]

\* The for loop of aggregateDataByTimeWindow from element i on, and the
\* final window after it.
RECURSIVE windowLoop(_, _, _, _, _, _)
windowLoop(sortedData, i, windowSize, windowStart, currentWindow, aggregated) ==
    IF i > Len(sortedData)
    THEN IF Len(currentWindow) > 0
         THEN Append(aggregated,
                     windowSample(windowStart, windowSize, currentWindow, TRUE))
         ELSE aggregated
    ELSE LET point == sortedData[i]
         IN  IF point.timestamp >= windowStart + windowSize
             THEN windowLoop(sortedData, i + 1, windowSize, point.timestamp,
                             <<point>>,
                             IF Len(currentWindow) > 0
                             THEN Append(aggregated,
                                         windowSample(windowStart, windowSize,
                                                      currentWindow, FALSE))
                             ELSE aggregated)
             ELSE windowLoop(sortedData, i + 1, windowSize, windowStart,
                             Append(currentWindow, point), aggregated)

aggregateDataByTimeWindow(samples, windowSize) ==
    IF Len(samples) = 0 THEN <<>>
    ELSE LET sortedData == SortByTimestamp(samples)
         IN  windowLoop(sortedData, 1, windowSize, sortedData[1].timestamp,
                        <<>>, <<>>)

\* Insert p into s after every element whose timestamp is not above p's:
\* the stable sort by (a, b) => a.timestamp - b.timestamp over numbers.
RECURSIVE InsertByNumber(_, _)
InsertByNumber(s, p) ==
    IF s = <<>> THEN <<p>>
    ELSE IF ~Lt(p.timestamp, s[Len(s)].timestamp) THEN Append(s, p)
    ELSE Append(InsertByNumber(SubSeq(s, 1, Len(s) - 1), p), s[Len(s)])

RECURSIVE SortByNumber(_)
SortByNumber(s) ==
    IF s = <<>> THEN <<>>
    ELSE InsertByNumber(SortByNumber(SubSeq(s, 1, Len(s) - 1)), s[Len(s)])

\* The keys of a Map in insertion order: the first occurrences in keys, the
\* array of the key of each element pushed.
RECURSIVE MapKeys(_)
MapKeys(keys) ==
    IF keys = <<>> THEN <<>>
    ELSE LET before == MapKeys(SubSeq(keys, 1, Len(keys) - 1))
             key    == keys[Len(keys)]
         IN  IF \E i \in DOMAIN before : before[i] = key
             THEN before
             ELSE Append(before, key)

\* The elements of s pushed under key, in order.
RECURSIVE MapGet(_, _, _)
MapGet(s, keys, key) ==
    IF s = <<>> THEN <<>>
    ELSE LET before == MapGet(SubSeq(s, 1, Len(s) - 1),
                              SubSeq(keys, 1, Len(s) - 1), key)
         IN  IF keys[Len(s)] = key THEN Append(before, s[Len(s)]) ELSE before

\* aggregateDataPoints(points, intervalMs)
aggregateDataPoints(points, intervalMs) ==
    LET bucketTime ==
            [i \in DOMAIN points |-> FloorTo(points[i].timestamp, intervalMs)]
        buckets == MapKeys(bucketTime)
        entry(timestamp) ==
            LET values == MapGet(points, bucketTime, timestamp)
            IN  [timestamp |-> Num(timestamp),
                 value     |-> Div(Num(SumValues(values)), Num(Len(values))),
                 min       |-> Num(SetMin(ValuesOf(values))),
                 max       |-> Num(SetMax(ValuesOf(values))),
                 count     |-> Len(values)]
    IN  SortByNumber([i \in DOMAIN buckets |-> entry(buckets[i])])

\* The period table of DataGenerator.aggregateData.
periodMs(period) ==
    CASE period = "1min"  -> 60 * 1000
      [] period = "5min"  -> 5 * 60 * 1000
      [] period = "1hour" -> 60 * 60 * 1000

\* `${point.category}-${bucketTime}`
groupKey(category, bucketTime) == [category |-> category, bucketTime |-> bucketTime]

\* key.split('-'): the category names of the generator hold no '-', so the
\* key splits into the category and the decimal digits of the bucket time,
\* with an empty string between them when the bucket time is negative.
splitKey(key) ==
    IF key.bucketTime < 0
    THEN <<[chars |-> key.category, digits |-> 0],
           [chars |-> "", digits |-> 0],
           [chars |-> "digits", digits |-> -key.bucketTime]>>
    ELSE <<[chars |-> key.category, digits |-> 0],
           [chars |-> "digits", digits |-> key.bucketTime]>>

\* parseInt(part)
parseInt(part) == IF part.chars = "digits" THEN Num(part.digits) ELSE NaN

\* Mutant of aggregatedValue: the average is not divided by the count.
aggregatedValueNoDivide(method, points) ==
    CASE method = "min" -> Num(SetMin(ValuesOf(points)))
      [] method = "max" -> Num(SetMax(ValuesOf(points)))
      [] OTHER -> Num(SumValues(points))

\* The switch (method) of DataGenerator.aggregateData.
aggregatedValue(method, points) ==
    CASE method = "sum" -> Num(SumValues(points))
      [] method = "min" -> Num(SetMin(ValuesOf(points)))
      [] method = "max" -> Num(SetMax(ValuesOf(points)))
      [] OTHER -> Div(Num(SumValues(points)), Num(Len(points)))

\* DataGenerator.aggregateData(data, period, method)
aggregateData(points, period, method) ==
    LET keys ==
            [i \in DOMAIN points |->
                groupKey(points[i].category,
                         FloorTo(points[i].timestamp, periodMs(period)))]
        grouped == MapKeys(keys)
        entry(key) ==
            LET group == MapGet(points, keys, key)
                parts == splitKey(key)
            IN  [id        |-> key,
                 timestamp |-> parseInt(parts[2]),
                 value     |-> aggregatedValue(method, group),
                 category  |-> parts[1].chars,
                 metadata  |-> [aggregated    |-> TRUE,
                                period        |-> period,
                                method        |-> method,
                                originalCount |-> Len(group)]]
    IN  SortByNumber([i \in DOMAIN grouped |-> entry(grouped[i])])

\* Inputs: timestamps on both sides of a one-minute boundary.
AggTimes == {59999, 60000, 60001}

AggValues == {10, 20}

AggCategories == {"CPU", "Memory"}

AggPoints ==
    {DataPoint(t, v, c) : t \in AggTimes, v \in AggValues, c \in AggCategories}

\* A window size for the worker's functions with a period for the generator's.
AggCalls ==
    {[windowSize |-> 2, period |-> "1min"],
     [windowSize |-> 3, period |-> "5min"],
     [windowSize |-> 60 * 1000, period |-> "1hour"]}

AggMethods == {"average", "sum", "min", "max"}

AggIdle ==
    /\ aData = <<>>
    /\ aWindowSize = 1
    /\ aPeriod = "1min"
    /\ aMethod = "average"
    /\ aByTimeWindow = <<>>
    /\ aGenerator = <<>>
    /\ aDataPoints = <<>>
    /\ aDone = {"idle"}

AggInit ==
    /\ aData \in SeqsOf(AggPoints, 0, MaxAggLen)
    /\ \E call \in AggCalls :
          /\ aWindowSize = call.windowSize
          /\ aPeriod = call.period
    /\ aMethod \in AggMethods
    /\ aByTimeWindow = <<>>
    /\ aGenerator = <<>>
    /\ aDataPoints = <<>>
    /\ aDone = {}

\* The worker answers AGGREGATE_DATA.
AggregateDataByTimeWindow ==
    /\ aDone = {}
    /\ aByTimeWindow' = aggregateDataByTimeWindow(aData, aWindowSize)
    /\ aDone' = {"byTimeWindow"}
    /\ UNCHANGED <<aData, aWindowSize, aPeriod, aMethod, aGenerator, aDataPoints>>
    /\ AggOnly

\* The first handler of the worker file aggregates.
AggregateDataPoints ==
    /\ aDone = {"byTimeWindow"}
    /\ aDataPoints' = aggregateDataPoints(aData, aWindowSize)
    /\ aDone' = {"byTimeWindow", "dataPoints"}
    /\ UNCHANGED <<aData, aWindowSize, aPeriod, aMethod, aByTimeWindow, aGenerator>>
    /\ AggOnly

\* DataGenerator.aggregateData is called.
AggregateData ==
    /\ aDone = {"byTimeWindow", "dataPoints"}
    /\ aGenerator' = aggregateData(aData, aPeriod, aMethod)
    /\ aDone' = {"byTimeWindow", "dataPoints", "generator"}
    /\ UNCHANGED <<aData, aWindowSize, aPeriod, aMethod, aByTimeWindow, aDataPoints>>
    /\ AggOnly

AggNext ==
    \/ AggregateDataByTimeWindow
    \/ AggregateDataPoints
    \/ AggregateData

(***************************************************************************)
(* Coordinate mapping: CanvasUtils.getDataBounds, CanvasUtils.scalePoint   *)
(* and useChartRenderer.screenToChart / findNearestPoint.                  *)
(***************************************************************************)
MaxMapLen == 2

\* The default margin of useChartRenderer.
DefaultMargin == [top |-> 20, right |-> 30, bottom |-> 40, left |-> 50]

\* The fallback bounds of getDataBounds.
UnitBounds == [minX |-> Num(0), maxX |-> Num(1), minY |-> Num(0), maxY |-> Num(1)]

\* The data.forEach of getDataBounds: the running minima and maxima.
RECURSIVE boundsLoop(_, _, _)
boundsLoop(samples, i, acc) ==
    IF i > Len(samples) THEN acc
    ELSE LET point == samples[i]
         IN  boundsLoop(samples, i + 1,
                        [minX |-> Min2(acc.minX, point.timestamp),
                         maxX |-> Max2(acc.maxX, point.timestamp),
                         minY |-> Min2(acc.minY, point.value),
                         maxY |-> Max2(acc.maxY, point.value)])

\* CanvasUtils.getDataBounds(data)
getDataBounds(samples) ==
    IF Len(samples) = 0 THEN UnitBounds
    ELSE LET m == boundsLoop(samples, 1,
                             [minX |-> samples[1].timestamp,
                              maxX |-> samples[1].timestamp,
                              minY |-> samples[1].value,
                              maxY |-> samples[1].value])
             xPadding == Mul(Num(m.maxX - m.minX), Frac(5, 100))
             yPadding == Mul(Num(m.maxY - m.minY), Frac(1, 10))
         IN  [minX |-> Sub(Num(m.minX), xPadding),
              maxX |-> Add(Num(m.maxX), xPadding),
              minY |-> MathMax(Num(0), Sub(Num(m.minY), yPadding)),
              maxY |-> Add(Num(m.maxY), yPadding)]

chartWidthOf(dimensions) ==
    dimensions.width - dimensions.margin.left - dimensions.margin.right

chartHeightOf(dimensions) ==
    dimensions.height - dimensions.margin.top - dimensions.margin.bottom

\* CanvasUtils.scalePoint(value, bounds, dimensions)
scalePoint(value, bounds, dimensions) ==
    [x |-> Add(Num(dimensions.margin.left),
               Mul(Div(Sub(value.x, bounds.minX),
                       Sub(bounds.maxX, bounds.minX)),
                   Num(chartWidthOf(dimensions)))),
     y |-> Add(Num(dimensions.margin.top),
               Mul(Div(Sub(bounds.maxY, value.y),
                       Sub(bounds.maxY, bounds.minY)),
                   Num(chartHeightOf(dimensions))))]

\* null and { x, y } as results of screenToChart
NullCoords == [isNull |-> TRUE, x |-> Num(0), y |-> Num(0)]

Coords(x, y) == [isNull |-> FALSE, x |-> x, y |-> y]

\* useChartRenderer.screenToChart(screenX, screenY, data) with the
\* interaction state inter of the render that made the callback, the canvas
\* (present or not), its bounding rectangle and the hook's dimensions.
screenToChart(screenX, screenY, samples, inter, canvas, rect, dimensions) ==
    IF Len(samples) = 0 THEN NullCoords
    ELSE IF ~canvas THEN NullCoords
    ELSE LET x == Sub(screenX, Num(rect.left))
             y == Sub(screenY, Num(rect.top))
             adjustedX == Div(Sub(x, inter.pan.x), inter.zoom.scale)
             adjustedY == Div(Sub(y, inter.pan.y), inter.zoom.scale)
             bounds == getDataBounds(samples)
             chartWidth == chartWidthOf(dimensions)
             chartHeight == chartHeightOf(dimensions)
             dataX == Add(bounds.minX,
                          Mul(Div(Sub(adjustedX, Num(dimensions.margin.left)),
                                  Num(chartWidth)),
                              Sub(bounds.maxX, bounds.minX)))
             dataY == Sub(bounds.maxY,
                          Mul(Div(Sub(adjustedY, Num(dimensions.margin.top)),
                                  Num(chartHeight)),
                              Sub(bounds.maxY, bounds.minY)))
         IN  Coords(dataX, dataY)

\* null and a sample as results of findNearestPoint
NullSample == [isNull |-> TRUE, timestamp |-> 0, value |-> 0, category |-> ""]

Sample(p) ==
    [isNull |-> FALSE, timestamp |-> p.timestamp, value |-> p.value,
     category |-> p.category]

\* The square of the distance computed in the loop of findNearestPoint.
\* Math.sqrt is strictly increasing and keeps Infinity and NaN, so
\* distance < minDistance is decided on the squares.
distanceSquared(point, chartCoords) ==
    LET dx == Sub(Num(point.timestamp), chartCoords.x)
        dy == Sub(Num(point.value), chartCoords.y)
    IN  Add(Mul(dx, dx), Mul(dy, dy))

\* Mutant of nearestLoop: a sample at the same distance replaces the one kept.
RECURSIVE nearestLoopLastWins(_, _, _, _, _)
nearestLoopLastWins(samples, i, chartCoords, nearestPoint, minDistance) ==
    IF i > Len(samples) THEN nearestPoint
    ELSE LET distance == distanceSquared(samples[i], chartCoords)
         IN  IF Le(distance, minDistance)
             THEN nearestLoopLastWins(samples, i + 1, chartCoords,
                                      Sample(samples[i]), distance)
             ELSE nearestLoopLastWins(samples, i + 1, chartCoords,
                                      nearestPoint, minDistance)

\* The data.forEach of findNearestPoint from element i on.
RECURSIVE nearestLoop(_, _, _, _, _)
nearestLoop(samples, i, chartCoords, nearestPoint, minDistance) ==
    IF i > Len(samples) THEN nearestPoint
    ELSE LET distance == distanceSquared(samples[i], chartCoords)
         IN  IF Lt(distance, minDistance)
             THEN nearestLoop(samples, i + 1, chartCoords,
                              Sample(samples[i]), distance)
             ELSE nearestLoop(samples, i + 1, chartCoords,
                              nearestPoint, minDistance)

\* useChartRenderer.findNearestPoint(screenX, screenY, data)
findNearestPoint(screenX, screenY, samples, inter, canvas, rect, dimensions) ==
    LET chartCoords ==
            screenToChart(screenX, screenY, samples, inter, canvas, rect,
                          dimensions)
    IN  IF chartCoords.isNull THEN NullSample
        ELSE nearestLoop(samples, 1, chartCoords, NullSample, Infinity(1))

\* The interaction state the hook is constructed with.
initialInteraction ==
    [zoom  |-> [x |-> 0, y |-> 0, scale |-> Num(1)],
     pan   |-> [x |-> Num(0), y |-> Num(0)],
     hover |-> [defined |-> FALSE, dataPoint |-> NullSample,
                position |-> [x |-> 0, y |-> 0]]]

\* Inputs of the coordinate functions.
MapTimes == {100, 200}

MapValues == {0, 10, 20}

MapPoints == {DataPoint(t, v, "CPU") : t \in MapTimes, v \in MapValues}

MapDatasets == SeqsOf(MapPoints, 0, MaxMapLen)

\* width and height of the hook: a 100 x 100 and a 50 x 20 plot area
MapDimensions ==
    {[width |-> 180, height |-> 160, margin |-> DefaultMargin],
     [width |-> 130, height |-> 80, margin |-> DefaultMargin]}

\* canvas.getBoundingClientRect()
CanvasRects == {[left |-> 0, top |-> 0], [left |-> 8, top |-> 16]}

\* Bounds handed to scalePoint that no data set of the inputs produces.
MapBounds ==
    {[minX |-> Num(100), maxX |-> Num(100), minY |-> Num(0), maxY |-> Num(20)],
     [minX |-> Num(0), maxX |-> Num(200), minY |-> Num(10), maxY |-> Num(10)]}

\* Values handed to scalePoint.
MapValuePoints == {[x |-> Num(t), y |-> Num(v)] : t \in MapTimes, v \in MapValues}

MapIdle ==
    /\ mData = <<>>
    /\ mDimensions = [width |-> 0, height |-> 0, margin |-> DefaultMargin]
    /\ mPoint = [x |-> Num(0), y |-> Num(0)]
    /\ mBounds = UnitBounds
    /\ mGetDataBounds = UnitBounds
    /\ mScaled = [x |-> Num(0), y |-> Num(0)]
    /\ mBack = NullCoords
    /\ mStage = "idle"

MapInit ==
    /\ mData \in MapDatasets
    /\ mDimensions \in MapDimensions
    /\ mPoint \in MapValuePoints
    /\ mBounds = UnitBounds
    /\ mGetDataBounds = UnitBounds
    /\ mScaled = [x |-> Num(0), y |-> Num(0)]
    /\ mBack = NullCoords
    /\ mStage = "input"

\* getDataBounds(mData)
GetDataBounds ==
    /\ mStage = "input"
    /\ mGetDataBounds' = getDataBounds(mData)
    /\ mStage' = "bounds"
    /\ UNCHANGED <<mData, mDimensions, mPoint, mBounds, mScaled, mBack>>
    /\ MapOnly

\* scalePoint(mPoint, bounds, dimensions) with the bounds of mData or with
\* other bounds.
ScalePoint ==
    /\ mStage = "bounds"
    /\ \E bounds \in {mGetDataBounds} \cup MapBounds :
          /\ mBounds' = bounds
          /\ mScaled' = scalePoint(mPoint, bounds, mDimensions)
    /\ mStage' = "scaled"
    /\ UNCHANGED <<mData, mDimensions, mPoint, mGetDataBounds, mBack>>
    /\ MapOnly

\* screenToChart at the screen position of the scaled point, with the
\* initial interaction state (zoom scale 1, pan (0, 0)) and the canvas
\* present.
ScreenToChart ==
    /\ mStage = "scaled"
    /\ \E rect \in CanvasRects :
          mBack' = screenToChart(Add(mScaled.x, Num(rect.left)),
                                 Add(mScaled.y, Num(rect.top)),
                                 mData, initialInteraction, TRUE, rect,
                                 mDimensions)
    /\ mStage' = "back"
    /\ UNCHANGED <<mData, mDimensions, mPoint, mBounds, mGetDataBounds, mScaled>>
    /\ MapOnly

MapNext ==
    \/ GetDataBounds
    \/ ScalePoint
    \/ ScreenToChart

(***************************************************************************)
(* useChartRenderer: the interaction state and its handlers.               *)
(***************************************************************************)
MaxWheelEvents == 1

\* The two factors of handleWheel and the limits of its clamp.
ZoomOutFactor == Frac(9, 10)

ZoomInFactor == Frac(11, 10)

MinScale == Frac(1, 10)

MaxScale == Num(10)

\* width, height and margin of the hook: a 22 x 12 plot area without margin
ChartDimensions ==
    [width |-> 22, height |-> 12,
     margin |-> [top |-> 0, right |-> 0, bottom |-> 0, left |-> 0]]

\* Inputs: pointer positions (clientX, clientY), wheel deltas, the data the
\* chart shows, arguments of setZoom and setPan.
PointerPositions == {[x |-> 6, y |-> 4], [x |-> 10, y |-> 8]}

\* canvas.getBoundingClientRect() of the chart
ChartRects == {[left |-> 4, top |-> 2]}

WheelDeltas == {-100, 100}

\* no sample, and three samples of which two lie at the same place
ChartDatasets ==
    {<<>>,
     <<DataPoint(21, 11, "CPU"), DataPoint(1, 1, "CPU"),
       DataPoint(1, 1, "Memory")>>}

\* setZoom(0.1), setZoom(10) and setZoom(20)
ZoomInputs == {Frac(1, 10), Num(10), Num(20)}

\* setPan(2, -1)
PanInputs == {[x |-> Num(2), y |-> Num(-1)]}

NoHover ==
    [defined |-> FALSE, dataPoint |-> NullSample, position |-> [x |-> 0, y |-> 0]]

\* A history entry: the operation, its inputs and what it returned.
Event(op, x, y, deltaY, samples, rect, result) ==
    [op |-> op, x |-> x, y |-> y, deltaY |-> deltaY, samples |-> samples,
     rect |-> rect, result |-> result]

NoRect == [left |-> 0, top |-> 0]

ChartIdle ==
    /\ enableInteraction = FALSE
    /\ canvasPresent = FALSE
    /\ interaction = initialInteraction
    /\ lastEvent = Event("idle", 0, 0, 0, <<>>, NoRect, NullSample)
    /\ wheelCount = 0
    /\ scaleSetBy = "idle"

\* The hook after construction: the canvas is not yet attached.
ChartInit ==
    /\ enableInteraction \in BOOLEAN
    /\ canvasPresent = FALSE
    /\ interaction = initialInteraction
    /\ lastEvent = Event("construct", 0, 0, 0, <<>>, NoRect, NullSample)
    /\ wheelCount = 0
    /\ scaleSetBy = "construct"

\* React attaches the canvas element to canvasRef.
AttachCanvas ==
    /\ ~canvasPresent
    /\ canvasPresent' = TRUE
    /\ lastEvent' = Event("attachCanvas", 0, 0, 0, <<>>, NoRect, NullSample)
    /\ UNCHANGED <<enableInteraction, interaction, wheelCount, scaleSetBy>>
    /\ ChartOnly

\* React detaches the canvas element.
DetachCanvas ==
    /\ canvasPresent
    /\ canvasPresent' = FALSE
    /\ lastEvent' = Event("detachCanvas", 0, 0, 0, <<>>, NoRect, NullSample)
    /\ UNCHANGED <<enableInteraction, interaction, wheelCount, scaleSetBy>>
    /\ ChartOnly

\* A component calls findNearestPoint(screenX, screenY, data).
FindNearestPoint(pointer, samples, rect) ==
    /\ lastEvent' =
          Event("findNearestPoint", pointer.x, pointer.y, 0, samples, rect,
                findNearestPoint(Num(pointer.x), Num(pointer.y), samples,
                                 interaction, canvasPresent, rect,
                                 ChartDimensions))
    /\ UNCHANGED <<enableInteraction, canvasPresent, interaction, wheelCount,
                   scaleSetBy>>
    /\ ChartOnly

\* handleMouseMove(event, data); it returns early without interaction or
\* without a canvas.
HandleMouseMove(pointer, samples, rect) ==
    /\ enableInteraction
    /\ canvasPresent
    /\ LET screenX == pointer.x - rect.left
           screenY == pointer.y - rect.top
           nearestPoint ==
               findNearestPoint(Num(pointer.x), Num(pointer.y), samples,
                                interaction, canvasPresent, rect,
                                ChartDimensions)
       IN  /\ interaction' =
                 [interaction EXCEPT !.hover =
                     [defined |-> TRUE, dataPoint |-> nearestPoint,
                      position |-> [x |-> screenX, y |-> screenY]]]
           /\ lastEvent' =
                 Event("handleMouseMove", pointer.x, pointer.y, 0, samples,
                       rect, nearestPoint)
    /\ UNCHANGED <<enableInteraction, canvasPresent, wheelCount, scaleSetBy>>
    /\ ChartOnly

\* handleMouseLeave()
HandleMouseLeave ==
    /\ enableInteraction
    /\ interaction' = [interaction EXCEPT !.hover = NoHover]
    /\ lastEvent' = Event("handleMouseLeave", 0, 0, 0, <<>>, NoRect,
                          NullSample)
    /\ UNCHANGED <<enableInteraction, canvasPresent, wheelCount, scaleSetBy>>
    /\ ChartOnly

\* Mutant of wheelScale: the product is not clamped.
wheelScaleNoClamp(scale, zoomFactor) == Mul(scale, zoomFactor)

\* Math.max(0.1, Math.min(10, prev.zoom.scale * zoomFactor))
wheelScale(scale, zoomFactor) ==
    MathMax(MinScale, MathMin(MaxScale, Mul(scale, zoomFactor)))

\* Mutant of wheelPan: the pan is scaled by the zoom factor of the event
\* instead of by the ratio of the new scale to the old one.
wheelPanByFactor(mouse, pan, newScale, oldScale, zoomFactor) ==
    Sub(mouse, Mul(Sub(mouse, pan), zoomFactor))

\* mouseX - (mouseX - prev.pan.x) * (newScale / prev.zoom.scale)
wheelPan(mouse, pan, newScale, oldScale, zoomFactor) ==
    Sub(mouse, Mul(Sub(mouse, pan), Div(newScale, oldScale)))

\* handleWheel(event); it returns early without interaction or without a
\* canvas.
HandleWheel(pointer, deltaY, rect) ==
    /\ enableInteraction
    /\ canvasPresent
    /\ wheelCount < MaxWheelEvents
    /\ LET mouseX == Num(pointer.x - rect.left)
           mouseY == Num(pointer.y - rect.top)
           zoomFactor == IF deltaY > 0 THEN ZoomOutFactor ELSE ZoomInFactor
           prev == interaction
           newScale == wheelScale(prev.zoom.scale, zoomFactor)
           newPanX == wheelPan(mouseX, prev.pan.x, newScale, prev.zoom.scale,
                               zoomFactor)
           newPanY == wheelPan(mouseY, prev.pan.y, newScale, prev.zoom.scale,
                               zoomFactor)
       IN  /\ interaction' =
                 [prev EXCEPT !.zoom.scale = newScale,
                              !.pan = [x |-> newPanX, y |-> newPanY]]
           /\ lastEvent' =
                 Event("handleWheel", pointer.x, pointer.y, deltaY, <<>>, rect,
                       NullSample)
    /\ wheelCount' = wheelCount + 1
    /\ scaleSetBy' = "handleWheel"
    /\ UNCHANGED <<enableInteraction, canvasPresent>>
    /\ ChartOnly

\* Mutant of resetInteraction: the hover is cleared as well.
resetInteractionAll(prev) == initialInteraction

\* The updater of resetTransform.
resetInteraction(prev) ==
    [prev EXCEPT !.zoom = [x |-> 0, y |-> 0, scale |-> Num(1)],
                 !.pan = [x |-> Num(0), y |-> Num(0)]]

\* resetTransform()
ResetTransform ==
    /\ interaction' = resetInteraction(interaction)
    /\ lastEvent' = Event("resetTransform", 0, 0, 0, <<>>, NoRect,
                          NullSample)
    /\ scaleSetBy' = "resetTransform"
    /\ UNCHANGED <<enableInteraction, canvasPresent, wheelCount>>
    /\ ChartOnly

\* setZoom(scale)
SetZoom(scale) ==
    /\ interaction' = [interaction EXCEPT !.zoom.scale = scale]
    /\ lastEvent' = Event("setZoom", 0, 0, 0, <<>>, NoRect, NullSample)
    /\ scaleSetBy' = "setZoom"
    /\ UNCHANGED <<enableInteraction, canvasPresent, wheelCount>>
    /\ ChartOnly

\* setPan(x, y)
SetPan(pan) ==
    /\ interaction' = [interaction EXCEPT !.pan = pan]
    /\ lastEvent' = Event("setPan", 0, 0, 0, <<>>, NoRect, NullSample)
    /\ UNCHANGED <<enableInteraction, canvasPresent, wheelCount, scaleSetBy>>
    /\ ChartOnly

ChartNext ==
    \/ AttachCanvas
    \/ DetachCanvas
    \/ \E pointer \in PointerPositions, samples \in ChartDatasets,
          rect \in ChartRects : FindNearestPoint(pointer, samples, rect)
    \/ \E pointer \in PointerPositions, samples \in ChartDatasets,
          rect \in ChartRects : HandleMouseMove(pointer, samples, rect)
    \/ HandleMouseLeave
    \/ \E pointer \in PointerPositions, deltaY \in WheelDeltas,
          rect \in ChartRects : HandleWheel(pointer, deltaY, rect)
    \/ ResetTransform
    \/ \E scale \in ZoomInputs : SetZoom(scale)
    \/ \E pan \in PanInputs : SetPan(pan)

(***************************************************************************)
(* useChartRenderer: the animated render loop.                             *)
(***************************************************************************)
\* renderAnimated is called at most MaxLoops times with animation enabled,
\* and as many times without.
MaxLoops == 2
\* requestAnimationFrame is called at most MaxFrames times.
MaxFrames == 3

\* Loops started so far.
Loops == 1..loopsStarted

\* The frames requested for loop l and neither run nor cancelled.
FramesOf(scheduled, l) == {f \in scheduled : f.loop = l}

\* cancelAnimationFrame(handle)
cancelAnimationFrame(scheduled, handle) == {f \in scheduled : f.id # handle}

\* The cancel function renderAnimated returns, and the unmount cleanup:
\* cancelAnimationFrame(animationRef.current) when the ref is set.
cancelCurrent(scheduled, ref) ==
    IF ref # 0 THEN cancelAnimationFrame(scheduled, ref) ELSE scheduled

RenderIdle ==
    /\ enableAnimation = FALSE
    /\ renderMounted = FALSE
    /\ renderCanvas = FALSE
    /\ isRendering = FALSE
    /\ animationRef = 0
    /\ frames = {}
    /\ inFlight = 0
    /\ loopsStarted = 0
    /\ nextHandle = 1
    /\ drawn = [l \in 0..MaxLoops |-> 0]
    /\ stoppedLoops = {}

\* The hook after construction, its canvas in the document.
RenderInit ==
    /\ enableAnimation \in BOOLEAN
    /\ renderMounted = TRUE
    /\ renderCanvas = TRUE
    /\ isRendering = FALSE
    /\ animationRef = 0
    /\ frames = {}
    /\ inFlight = 0
    /\ loopsStarted = 0
    /\ nextHandle = 1
    /\ drawn = [l \in 0..MaxLoops |-> 0]
    /\ stoppedLoops = {}

\* renderAnimated(renderFn): without animation one render(); with it, the
\* first frame of a new loop is requested and its handle kept in
\* animationRef.  drawn[0] counts the renders without animation.
RenderAnimated ==
    /\ renderMounted
    /\ inFlight = 0
    /\ IF ~enableAnimation
       THEN /\ drawn[0] < MaxLoops
            /\ drawn' = IF renderCanvas THEN [drawn EXCEPT ![0] = @ + 1]
                        ELSE drawn
            /\ UNCHANGED <<isRendering, animationRef, frames, loopsStarted,
                           nextHandle>>
       ELSE /\ loopsStarted < MaxLoops
            /\ nextHandle <= MaxFrames
            /\ isRendering' = TRUE
            /\ loopsStarted' = loopsStarted + 1
            /\ frames' = frames \cup {[id |-> nextHandle, loop |-> loopsStarted + 1]}
            /\ animationRef' = nextHandle
            /\ nextHandle' = nextHandle + 1
            /\ UNCHANGED drawn
    /\ UNCHANGED <<enableAnimation, renderMounted, renderCanvas, inFlight,
                   stoppedLoops>>
    /\ RenderOnly

\* The browser runs the callback of a requested frame: animate() up to and
\* including renderFn.  Without a canvas it returns and the loop ends.
AnimateBegins(f) ==
    /\ f \in frames
    /\ inFlight = 0
    /\ ~renderCanvas \/ nextHandle <= MaxFrames
    /\ frames' = frames \ {f}
    /\ IF ~renderCanvas
       THEN /\ isRendering' = FALSE
            /\ UNCHANGED <<drawn, inFlight>>
       ELSE /\ drawn' = [drawn EXCEPT ![f.loop] = @ + 1]
            /\ inFlight' = f.loop
            /\ UNCHANGED isRendering
    /\ UNCHANGED <<enableAnimation, renderMounted, renderCanvas, animationRef,
                   loopsStarted, nextHandle, stoppedLoops>>
    /\ RenderOnly

\* renderFn has returned: animate() requests the next frame of its loop.
AnimateEnds ==
    /\ inFlight # 0
    /\ frames' = frames \cup {[id |-> nextHandle, loop |-> inFlight]}
    /\ animationRef' = nextHandle
    /\ nextHandle' = nextHandle + 1
    /\ inFlight' = 0
    /\ UNCHANGED <<enableAnimation, renderMounted, renderCanvas, isRendering,
                   loopsStarted, drawn, stoppedLoops>>
    /\ RenderOnly

\* The cancel function of loop l is called, between frames or by renderFn
\* while a frame of the loop is in flight.
Cancel(l) ==
    /\ l \in Loops
    /\ inFlight \in {0, l}
    /\ frames' = cancelCurrent(frames, animationRef)
    /\ animationRef' = 0
    /\ isRendering' = FALSE
    /\ stoppedLoops' = stoppedLoops \cup {l}
    /\ UNCHANGED <<enableAnimation, renderMounted, renderCanvas, inFlight,
                   loopsStarted, nextHandle, drawn>>
    /\ RenderOnly

\* The canvas element leaves the document: canvasRef.current is null.
CanvasDisappears ==
    /\ renderCanvas
    /\ inFlight = 0
    /\ renderCanvas' = FALSE
    /\ stoppedLoops' = Loops
    /\ UNCHANGED <<enableAnimation, renderMounted, isRendering, animationRef,
                   frames, inFlight, loopsStarted, nextHandle, drawn>>
    /\ RenderOnly

\* The component unmounts: the cleanup cancels the frame of animationRef
\* and React resets canvasRef.
UnmountRenderer ==
    /\ renderMounted
    /\ inFlight = 0
    /\ renderMounted' = FALSE
    /\ renderCanvas' = FALSE
    /\ frames' = cancelCurrent(frames, animationRef)
    /\ stoppedLoops' = Loops
    /\ UNCHANGED <<enableAnimation, isRendering, animationRef, inFlight,
                   loopsStarted, nextHandle, drawn>>
    /\ RenderOnly

RenderNext ==
    \/ RenderAnimated
    \/ \E f \in frames : AnimateBegins(f)
    \/ AnimateEnds
    \/ \E l \in 1..MaxLoops : Cancel(l)
    \/ CanvasDisappears
    \/ UnmountRenderer

(***************************************************************************)
(* Heatmap: the grid of (category, time bucket) cells.                     *)
(***************************************************************************)
\* The heatmap is computed for data sets of 0..MaxHeatLen samples.
MaxHeatLen == 2

\* bucketDuration = 5 * 60 * 1000
BucketDuration == 300000

\* Math.ceil(a / d) for a >= 0 and d > 0
CeilDiv(a, d) == (a + d - 1) \div d

\* The categories of the model in the order of Array.prototype.sort().
CategoryOrder == <<"CPU", "Memory">>

\* Array.from(new Set(data.map(d => d.category))).sort()
heatCategories(samples) ==
    LET present(c) == \E i \in DOMAIN samples : samples[i].category = c
    IN  SelectSeq(CategoryOrder, present)

\* timeBuckets: bucketCount buckets of bucketDuration from minTime.
heatTimeBuckets(samples) ==
    LET minTime     == SetMin(TimestampsOf(samples))
        maxTime     == SetMax(TimestampsOf(samples))
        bucketCount == CeilDiv(maxTime - minTime, BucketDuration)
    IN  [i \in 1..bucketCount |->
            [start |-> minTime + (i - 1) * BucketDuration,
             end   |-> minTime + i * BucketDuration]]

\* One cell: the samples of the category inside [start, end), their count
\* and their average (0 for an empty cell).
heatCell(samples, category, bucket) ==
    LET inBucket(point) ==
            /\ point.category = category
            /\ point.timestamp >= bucket.start
            /\ point.timestamp < bucket.end
        pointsInBucket == SelectSeq(samples, inBucket)
    IN  [value  |-> IF Len(pointsInBucket) > 0
                    THEN Div(Num(SumValues(pointsInBucket)),
                             Num(Len(pointsInBucket)))
                    ELSE Num(0),
         count  |-> Len(pointsInBucket),
         points |-> pointsInBucket]

\* The values of all cells.
heatCellValues(grid) ==
    UNION {{grid[c][b].value : b \in DOMAIN grid[c]} : c \in DOMAIN grid}

\* heatmapData: the grid with its categories, buckets and value range.
heatmapData(samples) ==
    IF Len(samples) = 0
    THEN [grid |-> <<>>, categories |-> <<>>, timeBuckets |-> <<>>,
          maxValue |-> Num(0), minValue |-> Num(0)]
    ELSE LET categories  == heatCategories(samples)
             timeBuckets == heatTimeBuckets(samples)
             grid == [c \in DOMAIN categories |->
                         [b \in DOMAIN timeBuckets |->
                             heatCell(samples, categories[c], timeBuckets[b])]]
             values   == heatCellValues(grid)
             positive == {v \in values : Lt(Num(0), v)}
         IN  [grid |-> grid,
              categories |-> categories,
              timeBuckets |-> timeBuckets,
              maxValue |-> IF values = {} THEN Num(0)
                           ELSE CHOOSE v \in values \cup {Num(0)} :
                                   \A w \in values \cup {Num(0)} : Le(w, v),
              minValue |-> IF positive = {} THEN Num(0)
                           ELSE CHOOSE v \in positive :
                                   \A w \in positive : Le(v, w)]

\* Timestamps of the samples: one bucket start, 1 ms later, exactly one
\* bucket later and 1 ms past that.
HeatTimes == {600000, 600001, 900000, 900001}

HeatValues == {10, 30}

HeatPoints ==
    {DataPoint(t, v, c) : t \in HeatTimes, v \in HeatValues,
                          c \in {"CPU", "Memory"}}

HeatIdle ==
    /\ hData = <<>>
    /\ hHeatmap = heatmapData(<<>>)
    /\ hStage = "idle"

HeatInit ==
    /\ hData \in SeqsOf(HeatPoints, 0, MaxHeatLen)
    /\ hHeatmap = heatmapData(<<>>)
    /\ hStage = "input"

\* useMemo: heatmapData for the data of the component.
HeatmapData ==
    /\ hStage = "input"
    /\ hHeatmap' = heatmapData(hData)
    /\ hStage' = "done"
    /\ UNCHANGED hData
    /\ HeatOnly

HeatNext == HeatmapData

(***************************************************************************)
(* Specifications.                                                         *)
(***************************************************************************)
StreamIdle ==
    /\ initialData = <<>>
    /\ maxDataPoints = 1
    /\ enableRealtime = FALSE
    /\ updateInterval = DefaultUpdateInterval
    /\ streamMounted = FALSE
    /\ lastCall = "none"
    /\ userTimeRange = NoTimeRange
    /\ now = Now0
    /\ data = <<>>
    /\ filteredData = <<>>
    /\ isStreaming = FALSE
    /\ filters = initialFilters(<<>>, Now0)
    /\ intervalRef = 0
    /\ lastTimestampRef = Now0
    /\ liveTimers = {}
    /\ pendingEffects = {}
    /\ lastOp = "idle"
    /\ mostRecent = <<>>

vars ==
    <<streamVars, filterVars, workerVars, aggVars, mapVars, chartVars,
      renderVars, heatVars>>

SpecInit ==
    StreamInit /\ FilterIdle /\ WorkerIdle /\ AggIdle /\ MapIdle /\ ChartIdle
    /\ RenderIdle /\ HeatIdle

\* The useDataStream hook.
Spec == SpecInit /\ [][StreamNext]_vars

\* The useDataStream hook with its streaming controls, filter updates,
\* option changes and unmount.
SpecStreamControl == SpecInit /\ [][StreamControlNext]_vars

SpecFilterInit ==
    FilterInit /\ StreamIdle /\ WorkerIdle /\ AggIdle /\ MapIdle /\ ChartIdle
    /\ RenderIdle /\ HeatIdle

\* applyFilters on enumerated inputs.
SpecFilter == SpecFilterInit /\ [][FilterNext]_vars

SpecWorkerInit ==
    WorkerInit /\ StreamIdle /\ FilterIdle /\ AggIdle /\ MapIdle /\ ChartIdle
    /\ RenderIdle /\ HeatIdle

\* The useDataWorker hook and the worker.
SpecWorker == SpecWorkerInit /\ [][WorkerNext]_vars

SpecAggregateInit ==
    AggInit /\ StreamIdle /\ FilterIdle /\ WorkerIdle /\ MapIdle /\ ChartIdle
    /\ RenderIdle /\ HeatIdle

\* The aggregations on enumerated inputs.
SpecAggregate == SpecAggregateInit /\ [][AggNext]_vars

SpecMapperInit ==
    MapInit /\ StreamIdle /\ FilterIdle /\ WorkerIdle /\ AggIdle /\ ChartIdle
    /\ RenderIdle /\ HeatIdle

\* getDataBounds, scalePoint and screenToChart on enumerated inputs.
SpecMapper == SpecMapperInit /\ [][MapNext]_vars

SpecChartInit ==
    ChartInit /\ StreamIdle /\ FilterIdle /\ WorkerIdle /\ AggIdle /\ MapIdle
    /\ RenderIdle /\ HeatIdle

\* The interaction state of the useChartRenderer hook.
SpecChart == SpecChartInit /\ [][ChartNext]_vars

SpecRenderInit ==
    RenderInit /\ StreamIdle /\ FilterIdle /\ WorkerIdle /\ AggIdle /\ MapIdle
    /\ ChartIdle /\ HeatIdle

\* The animated render loop of the useChartRenderer hook.
SpecRender == SpecRenderInit /\ [][RenderNext]_vars

SpecHeatmapInit ==
    HeatInit /\ StreamIdle /\ FilterIdle /\ WorkerIdle /\ AggIdle /\ MapIdle
    /\ ChartIdle /\ RenderIdle

\* The heatmap grid on enumerated inputs.
SpecHeatmap == SpecHeatmapInit /\ [][HeatNext]_vars


(***************************************************************************)
(* Properties of the stream buffer.                                        *)
(***************************************************************************)
AppendOps == {"addDataPoint", "timerTick", "addBatchData"}

\* C1: right after every addDataPoint (a caller's or the timer's) and every
\* addBatchData, the buffer holds at most maxDataPoints samples.
CapacityAfterAppend ==
    lastOp \in AppendOps => Len(data) <= maxDataPoints

\* C1 witness: a batch was appended, the buffer is full and older samples
\* were evicted.
CapacityAfterAppendWitness ==
    /\ lastOp = "addBatchData"
    /\ Len(data) = maxDataPoints
    /\ Len(mostRecent) > maxDataPoints

\* C2 (as claimed): after every addDataPoint and addBatchData the buffer
\* holds exactly the maxDataPoints most recent samples, by timestamp, of all
\* the samples inserted.
FifoEvictionLaw ==
    lastOp \in AppendOps =>
        SortInts(TimestampSeq(data)) = LastN(mostRecent, maxDataPoints)

\* C3 (as claimed): in every reachable state the buffer is in non-decreasing
\* timestamp order.
OrderingInvariant == IsSortedByTimestamp(data)

(***************************************************************************)
(* Properties of applyFilters.                                             *)
(***************************************************************************)
\* The predicate of the filter as the specification states it.
KeepsSample(p, f) ==
    /\ \/ Len(f.categories) = 0
       \/ p.category \in {f.categories[k] : k \in DOMAIN f.categories}
    /\ f.valueRange.min <= p.value /\ p.value <= f.valueRange.max
    /\ f.timeRange.start <= p.timestamp /\ p.timestamp <= f.timeRange.end

KeptIndices == {i \in DOMAIN fData : KeepsSample(fData[i], fFilters)}

\* The j-th smallest index of KeptIndices.
NthKept(j) ==
    CHOOSE i \in KeptIndices : Cardinality({k \in KeptIndices : k <= i}) = j

\* C4: applyFilters returns exactly the samples that satisfy the category
\* (empty list: any), value-range and time-range conditions, bounds
\* inclusive, in their original order.
FilterKeepsExactly ==
    fStage \in {"once", "twice"} =>
        /\ Len(fOnce) = Cardinality(KeptIndices)
        /\ \A j \in 1..Len(fOnce) : fOnce[j] = fData[NthKept(j)]

\* C4 witness: with an empty category list one of two samples was kept, with
\* its value and timestamp on a bound; the other was excluded.
FilterKeepsExactlyWitness ==
    /\ fStage = "once"
    /\ fFilters.categories = <<>>
    /\ Len(fData) >= 2
    /\ Len(fOnce) = 1
    /\ fOnce[1].value = fFilters.valueRange.max
    /\ fOnce[1].timestamp = fFilters.timeRange.start

\* C5: filtering the filtered array again with the same filters returns it
\* unchanged.
FilterIdempotent == fStage = "twice" => fTwice = fOnce

\* C5 witness: the second application ran on a result that kept some
\* samples and dropped others.
FilterIdempotentWitness ==
    /\ fStage = "twice"
    /\ Len(fOnce) > 0
    /\ Len(fOnce) < Len(fData)
    /\ fFilters.categories # <<>>

(***************************************************************************)
(* Properties of the worker protocol.                                      *)
(***************************************************************************)
RequestIds == DOMAIN requests

\* The request was posted to a worker (not answered by sendMessage itself).
Posted(id) == requests[id].postedTo # 0

\* The worker the request was posted to has not been terminated.
WorkerAlive(id) == requests[id].postedTo = workerRef

InInbox(id) == \E k \in DOMAIN inbox : inbox[k].id = id

InOutbox(id) == \E k \in DOMAIN outbox : outbox[k].id = id

\* The responses workers posted with this id.
ResponsesFor(id) ==
    LET has(r) == r.id = id
    IN  SelectSeq(responseLog, has)

\* The request is one whose computation throws: an unknown kind, or a data
\* payload that is not an array.
Throws(id) ==
    \/ requests[id].type \notin KnownTypes
    \/ requests[id].type # "GENERATE_DATA" /\ ~requests[id].payloadOk

\* A success carries a result and a duration; a failure an error and no result.
WellFormedResponse(r, id) ==
    /\ r.id = id
    /\ r.type = requests[id].type
    /\ \/ r.error = NoError /\ r.result # Null /\ r.hasDuration
       \/ r.error # NoError /\ r.result = Null

\* C6: a request posted to the worker gets exactly one response with its id
\* once the worker has handled it, and its callback is called exactly once,
\* with that response, once the hook has received it (as long as the worker
\* it was posted to is not terminated); never more than one of either.
OneResponsePerRequest ==
    \A id \in RequestIds :
        Posted(id) =>
            /\ Len(ResponsesFor(id)) <= 1
            /\ Len(invocations[id]) <= 1
            /\ \A k \in DOMAIN ResponsesFor(id) :
                   WellFormedResponse(ResponsesFor(id)[k], id)
            /\ Len(invocations[id]) = 1 =>
                   /\ Len(ResponsesFor(id)) = 1
                   /\ LET r == ResponsesFor(id)[1]
                      IN  invocations[id][1] =
                              CallbackArgs(r.result, r.error, r.hasDuration)
            /\ (WorkerAlive(id) /\ ~InInbox(id)) => Len(ResponsesFor(id)) = 1
            /\ (WorkerAlive(id) /\ ~InInbox(id) /\ ~InOutbox(id)) =>
                   Len(invocations[id]) = 1

\* C6 witness: the second request was posted while the first was still
\* outstanding, and both callbacks have been called.
OneResponsePerRequestWitness ==
    /\ Len(requests) >= 2
    /\ Posted(1) /\ Posted(2)
    /\ requests[2].pendingAtSend = 1
    /\ Len(invocations[1]) = 1
    /\ Len(invocations[2]) = 1

\* C7 (as claimed): every request was posted to a worker whose ready signal
\* the hook had received, and isWorkerReady() holds only if the current
\* worker has signalled ready.
ReadinessHandshake ==
    /\ \A id \in RequestIds : Posted(id) => requests[id].afterReady
    /\ isWorkerReady => workerRef \in readyReceived

\* C8 (as claimed): a request issued while the worker is unavailable, whose
\* computation does not throw, has its callback called with the result of
\* the computation.
FallbackDeliversResult ==
    \A id \in RequestIds :
        (~Posted(id) /\ ~Throws(id)) =>
            /\ Len(invocations[id]) = 1
            /\ invocations[id][1].result = ResultOf(requests[id].type, id)

\* C9: a request whose computation throws gets, once handled, exactly one
\* response with its id, no result and a non-empty error, which is what its
\* callback receives; requests that do not throw get a success, whatever
\* was handled before them.
ThrowingRequestAnswered ==
    \A id \in RequestIds :
        Posted(id) =>
            /\ (WorkerAlive(id) /\ ~InInbox(id)) => Len(ResponsesFor(id)) = 1
            /\ \A k \in DOMAIN ResponsesFor(id) :
                   LET r == ResponsesFor(id)[k]
                   IN  /\ r.id = id
                       /\ IF Throws(id)
                          THEN r.result = Null /\ r.error \notin {NoError, ""}
                          ELSE r.result # Null /\ r.error = NoError
            /\ \A k \in DOMAIN invocations[id] :
                   IF Throws(id)
                   THEN /\ invocations[id][k].result = Null
                        /\ invocations[id][k].error \notin {NoError, ""}
                   ELSE invocations[id][k].error = NoError

\* C9 witness: the worker answered a throwing request with an error and the
\* next request with a success, and both callbacks were called.
ThrowingRequestAnsweredWitness ==
    /\ Len(responseLog) >= 2
    /\ responseLog[1].error # NoError
    /\ responseLog[2].error = NoError
    /\ Len(invocations[responseLog[1].id]) = 1
    /\ Len(invocations[responseLog[2].id]) = 1

\* C10: no callback is called more than once; a callback whose response was
\* delivered is no longer registered; a callback registered when the worker
\* was terminated is never called.
CallbackAtMostOnce ==
    \A id \in RequestIds :
        /\ Len(invocations[id]) <= 1
        /\ (Posted(id) /\ Len(invocations[id]) = 1) => id \notin callbacksRef
        /\ id \in orphaned => Len(invocations[id]) = 0

\* C10 witness: a callback was orphaned by a termination, and afterwards a
\* new worker answered another request whose callback was called.
CallbackAtMostOnceWitness ==
    \E id \in RequestIds, later \in RequestIds :
        /\ id \in orphaned
        /\ requests[later].postedTo > requests[id].postedTo
        /\ Len(invocations[later]) = 1

(***************************************************************************)
(* Properties of the aggregations.                                         *)
(***************************************************************************)
\* The bucket starts floor(timestamp / size) * size of the samples.
BucketStarts(samples, size) ==
    {FloorTo(samples[i].timestamp, size) : i \in DOMAIN samples}

\* The values of the samples of bucket b, of category c when byCategory.
BucketValues(samples, size, b, byCategory, c) ==
    LET member(p) ==
            /\ FloorTo(p.timestamp, size) = b
            /\ byCategory => p.category = c
        members == SelectSeq(samples, member)
    IN  [i \in DOMAIN members |-> members[i].value]

RECURSIVE SumOf(_)
SumOf(values) ==
    IF values = <<>> THEN 0
    ELSE values[1] + SumOf(SubSeq(values, 2, Len(values)))

\* The value a method gives for the values of one bucket.
ValueByMethod(method, values) ==
    LET range == {values[i] : i \in DOMAIN values}
    IN  CASE method = "sum" -> Num(SumOf(values))
          [] method = "min" -> Num(CHOOSE v \in range : \A w \in range : v <= w)
          [] method = "max" -> Num(CHOOSE v \in range : \A w \in range : v >= w)
          [] OTHER -> Frac(SumOf(values), Len(values))

\* result holds one derived sample per non-empty bucket of the samples,
\* stamped with the bucket start, valued by the method and ordered by bucket
\* start.
OnePerBucket(result, samples, size, method) ==
    LET starts == BucketStarts(samples, size)
    IN  /\ Len(result) = Cardinality(starts)
        /\ \A i \in 1..(Len(result) - 1) :
              Lt(result[i].timestamp, result[i + 1].timestamp)
        /\ \A b \in starts :
              \E i \in DOMAIN result :
                 /\ result[i].timestamp = Num(b)
                 /\ result[i].value =
                       ValueByMethod(method,
                                     BucketValues(samples, size, b, FALSE, ""))

\* The same per category.
OnePerCategoryBucket(result, samples, size, method) ==
    LET pairs == {<<samples[i].category, FloorTo(samples[i].timestamp, size)>> :
                     i \in DOMAIN samples}
    IN  /\ Len(result) = Cardinality(pairs)
        /\ \A i \in 1..(Len(result) - 1) :
              Le(result[i].timestamp, result[i + 1].timestamp)
        /\ \A pair \in pairs :
              \E i \in DOMAIN result :
                 /\ result[i].category = pair[1]
                 /\ result[i].timestamp = Num(pair[2])
                 /\ result[i].value =
                       ValueByMethod(method,
                                     BucketValues(samples, size, pair[2], TRUE,
                                                  pair[1]))

\* DataGenerator.aggregateData buckets as C11 says.
GeneratorBucketsByFloor ==
    "generator" \in aDone =>
        OnePerCategoryBucket(aGenerator, aData, periodMs(aPeriod), aMethod)

\* aggregateDataPoints buckets as C11 says.
DataPointsBucketsByFloor ==
    "dataPoints" \in aDone =>
        OnePerBucket(aDataPoints, aData, aWindowSize, "average")

\* aggregateDataByTimeWindow buckets as C11 says.
TimeWindowBucketsByFloor ==
    "byTimeWindow" \in aDone =>
        OnePerBucket(aByTimeWindow, aData, aWindowSize, "average")

\* C11 (as claimed): every aggregation, the worker's and
\* DataGenerator.aggregateData, assigns each sample to the bucket
\* floor(timestamp / windowSize) * windowSize and returns one derived sample
\* per non-empty bucket (per category in aggregateData), stamped with the
\* bucket start, computed with the method, in ascending order of bucket start.
TimeBucketAggregation ==
    /\ TimeWindowBucketsByFloor
    /\ DataPointsBucketsByFloor
    /\ GeneratorBucketsByFloor

\* aData is N >= 1 samples, one per millisecond, all of one value.
IsConstantSeries ==
    /\ Len(aData) >= 1
    /\ \A i \in DOMAIN aData :
          /\ aData[i].value = aData[1].value
          /\ aData[i].timestamp = aData[1].timestamp + (i - 1)

AllValuesAre(result, c) == \A i \in DOMAIN result : result[i].value = c

\* C12 (as claimed): for a constant series of value c every bucket has the
\* value c, whatever the window size and the method.
ConstantSeriesKeepsValue ==
    IsConstantSeries =>
        /\ "byTimeWindow" \in aDone => AllValuesAre(aByTimeWindow, Num(aData[1].value))
        /\ "dataPoints" \in aDone => AllValuesAre(aDataPoints, Num(aData[1].value))
        /\ "generator" \in aDone => AllValuesAre(aGenerator, Num(aData[1].value))

\* C12 (amended): for a constant series of value c every bucket of the
\* worker's aggregations has the value c, and every bucket of
\* DataGenerator.aggregateData has the value c with the methods average, min
\* and max and c times the number of its samples with the method sum.
ConstantSeriesAggregates ==
    IsConstantSeries =>
        /\ "byTimeWindow" \in aDone => AllValuesAre(aByTimeWindow, Num(aData[1].value))
        /\ "dataPoints" \in aDone => AllValuesAre(aDataPoints, Num(aData[1].value))
        /\ "generator" \in aDone =>
              \A i \in DOMAIN aGenerator :
                 aGenerator[i].value =
                    IF aMethod = "sum"
                    THEN Num(aData[1].value * aGenerator[i].metadata.originalCount)
                    ELSE Num(aData[1].value)

\* A constant series of three samples has been averaged by all three
\* aggregations, with two samples or more in one bucket of aggregateData.
ConstantSeriesAggregatesWitness ==
    /\ IsConstantSeries
    /\ Len(aData) = 3
    /\ aDone = {"byTimeWindow", "dataPoints", "generator"}
    /\ aMethod = "average"
    /\ \E i \in DOMAIN aGenerator : aGenerator[i].metadata.originalCount >= 2
    /\ \E i \in DOMAIN aByTimeWindow : aByTimeWindow[i].id.final = FALSE

(***************************************************************************)
(* Properties of the coordinate mapping.                                   *)
(***************************************************************************)
BoundsComputed == mStage \in {"bounds", "scaled", "back"}

\* C13 (as claimed): getDataBounds returns the unit bound {0, 1, 0, 1} for
\* no sample and for exactly one sample, so neither of its ranges is zero.
DegenerateBoundsAreUnit ==
    (BoundsComputed /\ Len(mData) <= 1) =>
        /\ mGetDataBounds = UnitBounds
        /\ mGetDataBounds.maxX # mGetDataBounds.minX
        /\ mGetDataBounds.maxY # mGetDataBounds.minY

SmallestTimestamp(samples) ==
    CHOOSE t \in TimestampsOf(samples) : \A u \in TimestampsOf(samples) : t <= u

LargestTimestamp(samples) ==
    CHOOSE t \in TimestampsOf(samples) : \A u \in TimestampsOf(samples) : t >= u

SmallestValue(samples) ==
    CHOOSE v \in ValuesOf(samples) : \A w \in ValuesOf(samples) : v <= w

LargestValue(samples) ==
    CHOOSE v \in ValuesOf(samples) : \A w \in ValuesOf(samples) : v >= w

\* C14 (as claimed): for two samples or more the bounds lie strictly outside
\* the timestamps on both sides and strictly above the largest value, and
\* minY is max(0, smallest value - padding), so minY >= 0.
BoundsStrictlyPadded ==
    (BoundsComputed /\ Len(mData) >= 2) =>
        /\ Lt(mGetDataBounds.minX, Num(SmallestTimestamp(mData)))
        /\ Lt(Num(LargestTimestamp(mData)), mGetDataBounds.maxX)
        /\ Lt(Num(LargestValue(mData)), mGetDataBounds.maxY)
        /\ mGetDataBounds.minY =
              MathMax(Num(0),
                      Sub(Num(SmallestValue(mData)),
                          Frac(LargestValue(mData) - SmallestValue(mData), 10)))
        /\ Le(Num(0), mGetDataBounds.minY)

\* The position along one axis as C15 states it: the ratio is 0 when the
\* range is 0.
GuardedRatio(offset, range) ==
    IF IsZero(range) THEN Num(0) ELSE Div(offset, range)

\* C15 (as claimed): scalePoint maps linearly with Y inverted, takes the ratio
\* as 0 when a range of the bounds is zero (x = margin.left, y = margin.top),
\* and returns a finite point for every input.
ScalePointGuarded ==
    mStage \in {"scaled", "back"} =>
        /\ mScaled.x =
              Add(Num(mDimensions.margin.left),
                  Mul(GuardedRatio(Sub(mPoint.x, mBounds.minX),
                                   Sub(mBounds.maxX, mBounds.minX)),
                      Num(chartWidthOf(mDimensions))))
        /\ mScaled.y =
              Add(Num(mDimensions.margin.top),
                  Mul(GuardedRatio(Sub(mBounds.maxY, mPoint.y),
                                   Sub(mBounds.maxY, mBounds.minY)),
                      Num(chartHeightOf(mDimensions))))
        /\ IsFinite(mScaled.x)
        /\ IsFinite(mScaled.y)

\* mPoint is a sample of mData and lies inside the bounds of mData.
SampleInsideBounds ==
    /\ \E i \in DOMAIN mData :
          /\ mPoint.x = Num(mData[i].timestamp)
          /\ mPoint.y = Num(mData[i].value)
    /\ Le(mGetDataBounds.minX, mPoint.x)
    /\ Le(mPoint.x, mGetDataBounds.maxX)
    /\ Le(mGetDataBounds.minY, mPoint.y)
    /\ Le(mPoint.y, mGetDataBounds.maxY)

\* C16 (as claimed): with zoom scale 1 and pan (0, 0), scaling a sample of a
\* data set with the bounds of the data set and converting the result back
\* with screenToChart gives the sample again.
RoundTrip ==
    (mStage = "back" /\ mBounds = mGetDataBounds /\ SampleInsideBounds) =>
        mBack = Coords(mPoint.x, mPoint.y)

(***************************************************************************)
(* Properties of the interaction state.                                    *)
(***************************************************************************)
\* The square of the Euclidean distance in (timestamp, value) space.
SquaredDistance(p, coords) ==
    Add(Mul(Sub(Num(p.timestamp), coords.x), Sub(Num(p.timestamp), coords.x)),
        Mul(Sub(Num(p.value), coords.y), Sub(Num(p.value), coords.y)))

\* The last operation looked for the sample nearest to the pointer.
NearestSought == lastEvent.op \in {"findNearestPoint", "handleMouseMove"}

ZoomClamp ==
    scaleSetBy \in {"construct", "handleWheel", "resetTransform"} =>
        /\ Le(MinScale, interaction.zoom.scale)
        /\ Le(interaction.zoom.scale, MaxScale)

\* A zoom-out wheel event was clamped at 0.1.
ZoomClampWitness ==
    /\ scaleSetBy = "handleWheel"
    /\ lastEvent.op = "handleWheel"
    /\ lastEvent.deltaY > 0
    /\ interaction.zoom.scale = MinScale

\* C19: on every wheel event the content point under the cursor before the
\* event, c = (cursor - oldPan) / oldScale, is drawn under the cursor after
\* it: newPan + c * newScale = cursor, on both axes.
ZoomAnchor ==
    [][wheelCount' # wheelCount =>
          LET mouseX == Num(lastEvent'.x - lastEvent'.rect.left)
              mouseY == Num(lastEvent'.y - lastEvent'.rect.top)
              cX == Div(Sub(mouseX, interaction.pan.x), interaction.zoom.scale)
              cY == Div(Sub(mouseY, interaction.pan.y), interaction.zoom.scale)
          IN  /\ Add(interaction'.pan.x, Mul(cX, interaction'.zoom.scale)) = mouseX
              /\ Add(interaction'.pan.y, Mul(cY, interaction'.zoom.scale)) = mouseY]_vars

\* A zoom-in wheel event whose scale was clamped at 10 has moved the pan.
ZoomAnchorWitness ==
    /\ lastEvent.op = "handleWheel"
    /\ lastEvent.deltaY < 0
    /\ interaction.zoom.scale = MaxScale
    /\ interaction.pan.x # Num(0)
    /\ interaction.pan.y # Num(0)

\* C20: resetTransform sets the zoom scale to 1 and the pan to (0, 0) and
\* leaves the hover as it was.
ResetKeepsHover ==
    [][lastEvent'.op = "resetTransform" =>
          /\ interaction'.zoom.scale = Num(1)
          /\ interaction'.pan = [x |-> Num(0), y |-> Num(0)]
          /\ interaction'.hover = interaction.hover]_vars

\* After a reset the pointer still hovers over a sample.
ResetKeepsHoverWitness ==
    /\ lastEvent.op = "resetTransform"
    /\ interaction.hover.defined
    /\ ~interaction.hover.dataPoint.isNull
    /\ wheelCount > 0

\* C24: in every reachable interaction state the zoom scale is within
\* [0.1, 10], whichever of handleWheel, resetTransform, setZoom and setPan
\* wrote the state.
ZoomScaleInRange ==
    /\ Le(MinScale, interaction.zoom.scale)
    /\ Le(interaction.zoom.scale, MaxScale)

(***************************************************************************)
(* Properties of the stream hook's state between operations.               *)
(***************************************************************************)
\* Operations by which a caller or the streaming timer puts samples into the
\* buffer.
FillOps == AppendOps \cup {"generateTestData"}

\* The buffer and the filtered set are empty and the stats say so.
ReportsEmpty ==
    /\ data = <<>>
    /\ filteredData = <<>>
    /\ stats.totalPoints = 0
    /\ stats.filteredPoints = 0
    /\ stats.timeRange = [start |-> 0, end |-> 0]

\* C25: after clearData the buffer and the filtered set are empty and the
\* stats report count 0 and time range {0, 0}, and every step other than an
\* addDataPoint, addBatchData or generateTestData of a caller or the timer
\* leaves them so.
ClearedStaysEmpty ==
    [][(\/ lastOp' = "clearData"
        \/ lastOp = "clearData" /\ lastOp' \notin FillOps) => ReportsEmpty']_vars

\* C28: the buffer holds at most maxDataPoints samples in every reachable
\* state.
BufferWithinCapacity == Len(data) <= maxDataPoints

(***************************************************************************)
(* Properties of the streaming timer.                                      *)
(***************************************************************************)
\* C22: at most one interval is live, and it is the one intervalRef holds;
\* stopStreaming leaves the timers alone when intervalRef holds none, and a
\* second stopStreaming changes nothing.
AtMostOneTimer ==
    /\ Cardinality(liveTimers) <= 1
    /\ \A t \in liveTimers : t.id = intervalRef
    /\ LET once == stopStreamingResult(liveTimers, intervalRef)
       IN  /\ stopStreamingResult(once.timers, once.ref) = once
           /\ once.timers = {}
           /\ intervalRef = 0 => once.timers = liveTimers

\* startStreaming was called, the options changed and the one live timer
\* ticked.
AtMostOneTimerWitness ==
    /\ lastCall = "startStreaming"
    /\ updateInterval # DefaultUpdateInterval
    /\ lastOp = "timerTick"
    /\ Cardinality(liveTimers) = 1

\* C23: after a caller's stopStreaming no timer tick appends a sample until
\* a caller invokes startStreaming.
NoTickAfterStop ==
    [][lastCall = "stopStreaming" =>
          ~(lastOp' = "timerTick" /\ lastTimestampRef' # lastTimestampRef)]_vars

\* C30: in every settled state isStreaming is true exactly when an interval
\* is live.
IsStreamingAgreesWithTimer ==
    Settled => (isStreaming <=> liveTimers # {})

(***************************************************************************)
(* Properties of the filtered set.                                         *)
(***************************************************************************)
\* C26: whenever the effects have settled, filteredData is
\* applyFilters(data, filters) for the current data and filters.
FilteredDataCurrent ==
    Settled => filteredData = applyFilters(data, filters)

\* After a filter update and a timer tick the settled filtered set leaves
\* out samples of the buffer.
FilteredDataCurrentWitness ==
    /\ Settled
    /\ lastOp = "timerTick"
    /\ Len(filters.categories) > 0
    /\ Len(data) > Len(filteredData)

\* C29: once a caller has set a time range through updateFilters, in every
\* settled state filters.timeRange is that range and no sample outside it
\* is in filteredData.
UserTimeRangeKept ==
    Settled /\ userTimeRange # NoTimeRange =>
        /\ filters.timeRange = userTimeRange
        /\ \A i \in DOMAIN filteredData :
              /\ filteredData[i].timestamp >= userTimeRange.start
              /\ filteredData[i].timestamp <= userTimeRange.end

(***************************************************************************)
(* Properties of the animated render loop.                                 *)
(***************************************************************************)
\* C21: once a loop is stopped (its cancel function was called, the
\* component unmounted or the canvas disappeared), no step draws a frame of
\* the loop or requests one.
NoFrameAfterStop ==
    [][\A l \in stoppedLoops :
          /\ drawn'[l] = drawn[l]
          /\ FramesOf(frames', l) \subseteq FramesOf(frames, l)]_vars

(***************************************************************************)
(* Properties of the heatmap grid.                                         *)
(***************************************************************************)
\* The number of cells of the grid that hold the sample.
CellsHolding(grid, point) ==
    Cardinality({cell \in UNION {{<<c, b>> : b \in DOMAIN grid[c]} : c \in DOMAIN grid} :
                    \E i \in DOMAIN grid[cell[1]][cell[2]].points :
                       grid[cell[1]][cell[2]].points[i] = point})

\* The sum of the counts of all cells.
RECURSIVE SumCounts(_)
SumCounts(cells) ==
    IF cells = <<>> THEN 0
    ELSE SumCounts(SubSeq(cells, 1, Len(cells) - 1)) + cells[Len(cells)].count

RECURSIVE GridCount(_)
GridCount(grid) ==
    IF grid = <<>> THEN 0
    ELSE GridCount(SubSeq(grid, 1, Len(grid) - 1)) + SumCounts(grid[Len(grid)])

\* C27: for every non-empty data set each sample is in exactly one cell
\* and the cell counts sum to the number of samples.
HeatmapLosesNoSample ==
    hStage = "done" /\ Len(hData) > 0 =>
        /\ \A i \in DOMAIN hData : CellsHolding(hHeatmap.grid, hData[i]) = 1
        /\ GridCount(hHeatmap.grid) = Len(hData)

====
